---- MODULE Spec2Model ----
(***************************************************************************)
(* Transport client of the chat front end (class RasaAPI in                *)
(* frontend/js/app.js): request de-duplication, retry loop, availability   *)
(* state, periodic health probe and teardown.                              *)
(*                                                                         *)
(* One action is one run-to-completion block of the JavaScript event loop: *)
(* the code between two awaits.  Date.now() is the variable now.  Timers   *)
(* (abort timeout, retry delay, probe interval, probe timeout) fire as     *)
(* nondeterministic events while they are armed.                           *)
(***************************************************************************)
EXTENDS Integers, Sequences, FiniteSets, TLC

\* ---------------------------------------------------------------- bounds
MaxSends == 2
MaxTicks == 1
MaxProbes == 1
MaxFaults == 3
\* Messages in one backend payload, and backend requests of one page run.
MaxBatch == 2
MaxCycles == 3
\* Months the user navigates away from the current month of a calendar
\* widget, and requests one widget issues.
MaxMonths == 1
MaxPicks == 1

\* ------------------------------------------------------ program constants
maxRetries == 2
GraceWindow == 5000
IdPrefixLen == 50

Slots == 1..MaxSends
NoSlot == 0

\* ------------------------------------------------------------ input sets
\* Message texts are sequences of character codes.  LongA and LongB are 51
\* characters long and differ only in their last character.
ShortMsg == <<7>>
LongA == [i \in 1..(IdPrefixLen + 1) |-> 1]
LongB == [i \in 1..(IdPrefixLen + 1) |-> IF i <= IdPrefixLen THEN 1 ELSE 2]
Messages == {ShortMsg, LongA, LongB}
\* Every call of sendMessage passes its own context object.
ContextOf(s) == <<"ctx", s>>
\* The two long messages are interchangeable, so the first send of a run is
\* always LongA; later sends range over all messages.
SendInputs(s) == IF s = 1 THEN {LongA} ELSE Messages
\* Time advances by one millisecond or by the grace window.
TickSteps == {1, GraceWindow}

\* ----------------------------------------------------------------- errors
\* An error is a name and a message; a message is a sequence of words.
AbortError == [name |-> "AbortError", message |-> <<"The", "operation", "was", "aborted">>]
NetworkErrorFirefox == [name |-> "TypeError", message |-> <<"NetworkError", "when", "attempting", "to", "fetch", "resource">>]
NetworkErrorChromium == [name |-> "TypeError", message |-> <<"Failed", "to", "fetch">>]
HttpError == [name |-> "Error", message |-> <<"Server", "responded", "with", "500">>]
SyntaxError == [name |-> "SyntaxError", message |-> <<"Unexpected", "token">>]
NoError == [name |-> "none", message |-> <<>>]
NetworkErrors == {NetworkErrorFirefox, NetworkErrorChromium}

Includes(message, word) == \E i \in 1..Len(message) : message[i] = word

\* Mutant: every failure is retried.
IsRetryable_Always(error) == TRUE

IsRetryable(error) == error.name = "AbortError" \/ Includes(error.message, "NetworkError")

\* ---------------------------------------------------------------- helpers
Min(a, b) == IF a < b THEN a ELSE b

Substring(str, from, to) == SubSeq(str, from + 1, Min(to, Len(str)))

FailFastText == "I'm sorry, I'm having trouble connecting to my backend service. Please try again in a few moments."
RetryFailedText == "I'm sorry, I encountered a problem communicating with my backend. Please try again later."
FailFastError == <<"Server", "connection", "issue">>

createErrorResponse(errorMessage, userMessage, context) ==
    [error |-> errorMessage, messages |-> <<[text |-> userMessage]>>, context |-> context]

generateRequestId(message, context, time) == <<Substring(message, 0, IdPrefixLen), time>>

NoResult == [none |-> TRUE]

\* A Map from request ids to the promise of the send that owns the request
\* (the promise is named by the slot of that send).
EmptyMap == [k \in {} |-> NoSlot]
MapHas(map, key) == key \in DOMAIN map
MapSet(map, key, value) == [k \in (DOMAIN map) \cup {key} |-> IF k = key THEN value ELSE map[k]]
MapDelete(map, key) == [k \in (DOMAIN map) \ {key} |-> map[k]]
NoRequestId == <<>>

VARIABLES now, ticks, isConnected, lastCheckTime, pendingRequests,
          connectionCheckInterval, intervalActive, probeFetch, probeJson,
          req, destroyed, faults

\* The chat page: the message feed (the .message elements of the chat
\* container, in document order), the conversation context, the backend
\* requests of the page and the greeting timer of initChatbot.  response and
\* renderedFrom are the argument of handleRasaResponse and the length of the
\* feed when it was called, for the runs that apply it to a drawn payload.
VARIABLES feed, conversationContext, appReq, greetingTimer, response, renderedFrom

\* The calendar widget of the runs that follow one widget: the variables of
\* the closure of addCalendarWidget.
VARIABLE calendarWidget

\* The typing indicator: the flag isTyping of the page, and whether the
\* .typing-message element is in the chat container.
VARIABLES isTyping, typingMessage

transport == <<now, ticks, isConnected, lastCheckTime, pendingRequests,
               connectionCheckInterval, intervalActive, probeFetch, probeJson,
               req, destroyed, faults>>

typing == <<isTyping, typingMessage>>

page ==
    <<feed, conversationContext, appReq, greetingTimer, response, renderedFrom,
      calendarWidget, typing>>

vars == <<transport, page>>

IdleReq ==
    [pc |-> "idle", message |-> <<>>, context |-> "none", requestId |-> NoRequestId,
     retries |-> 0, calls |-> 0, timeouts |-> 0, joinOf |-> NoSlot, result |-> NoResult]

\* A backend request of the page: idle, waiting for the 200 ms timer of the
\* date-range confirmation, waiting for fetch, or handled.  path is the
\* function that issues it, message and context are the members of the body
\* it posts.
Cycles == 1..MaxCycles
EmptyContext == [k \in {} |-> 0]
IdleAppReq == [pc |-> "idle", path |-> "none", message |-> <<>>, context |-> EmptyContext]

\* A decoded response body.  shape is what JSON.parse returned: null, another
\* falsy value, a truthy scalar, an array of messages or an object.  For an
\* object, messagesKind tells whether the messages member is absent, an array
\* or another truthy value, hasContext whether the context member is an
\* object, hasError whether the error member is truthy, and fallbackResponse
\* whether the fallback_response member is absent, a non-empty array or
\* another truthy value.
EmptyObject ==
    [shape |-> "object", messagesKind |-> "absent", messages |-> <<>>,
     hasContext |-> FALSE, context |-> EmptyContext, actions |-> <<>>,
     hasError |-> FALSE, fallbackResponse |-> "absent"]
NullPayload == [EmptyObject EXCEPT !.shape = "null"]
NotCalled == 0 - 1

\* The page after its DOMContentLoaded handler ran: an empty feed, an empty
\* context and the 300 ms greeting timer of initChatbot pending; no calendar
\* widget is followed and no typing indicator is shown.
PageInit ==
    /\ feed = <<>>
    /\ conversationContext = EmptyContext
    /\ appReq = [c \in Cycles |-> IdleAppReq]
    /\ greetingTimer = TRUE
    /\ response = NullPayload
    /\ renderedFrom = NotCalled
    /\ calendarWidget = [mode |-> "none"]
    /\ isTyping = FALSE
    /\ typingMessage = FALSE

\* The transport client after its constructor ran.
TransportInit ==
    /\ now = 0
    /\ ticks = 0
    /\ isConnected = TRUE
    /\ lastCheckTime = 0
    /\ pendingRequests = EmptyMap
    /\ connectionCheckInterval = 1
    /\ intervalActive = TRUE
    /\ probeFetch = 1
    /\ probeJson = 0
    /\ req = [s \in Slots |-> IdleReq]
    /\ destroyed = FALSE
    /\ faults = 0

Init == PageInit /\ TransportInit

\* ------------------------------------------------------------ sendMessage
\* The call returns: its promise settles with value, and its parameters and
\* locals (message, context, the retry counter, the request id held by the
\* finally callback) are gone.  calls and timeouts stay as the record of what
\* the send did.
Return(r, value) ==
    [r EXCEPT !.pc = "done", !.result = value, !.message = <<>>, !.context = "none",
              !.retries = 0, !.requestId = NoRequestId, !.joinOf = NoSlot]

\* Mutant: a client marked unavailable fails fast whatever the time.
FailFast_Absorbing(connected, time, lastCheck) == ~connected

\* Mutant: the comparison with the grace window is inverted.
FailFast_Inverted(connected, time, lastCheck) == ~connected /\ time - lastCheck > GraceWindow

\* The fail-fast test at the top of sendMessage.
FailFast(connected, time, lastCheck) == ~connected /\ time - lastCheck < GraceWindow

\* Whether sendMessage hands the caller the promise of a pending request.
IsDuplicate(map, requestId) == MapHas(map, requestId)

sendMessage(s, message, context) ==
    /\ req[s].pc = "idle"
    /\ \A t \in Slots : t < s => req[t].pc # "idle"
    /\ LET requestId == generateRequestId(message, context, now)
           called == [IdleReq EXCEPT !.message = message, !.context = context]
       IN IF FailFast(isConnected, now, lastCheckTime)
          THEN /\ req' = [req EXCEPT ![s] =
                              Return(called, createErrorResponse(FailFastError, FailFastText, context))]
               /\ UNCHANGED pendingRequests
          ELSE IF IsDuplicate(pendingRequests, requestId)
          THEN /\ req' = [req EXCEPT ![s] = [called EXCEPT !.pc = "joined",
                              !.joinOf = pendingRequests[requestId]]]
               /\ UNCHANGED pendingRequests
          ELSE /\ req' = [req EXCEPT ![s] = [called EXCEPT !.pc = "fetch", !.calls = 1,
                              !.requestId = requestId]]
               /\ pendingRequests' = MapSet(pendingRequests, requestId, s)
    /\ UNCHANGED <<now, ticks, isConnected, lastCheckTime, connectionCheckInterval,
                   intervalActive, probeFetch, probeJson, destroyed, faults, page>>

\* -------------------------------------------------------- _executeRequest
\* Mutant: the entry is never removed.
Finally_Keep(map, r) == map

\* The finally callback registered by sendMessage: runs when the request
\* promise settles, whatever the outcome.
Finally(map, r) == MapDelete(map, r.requestId)

\* Installs the new record of send s; when s has settled, the sends waiting
\* on its promise settle with the same value and the finally callback runs.
Install(s, r2) ==
    /\ req' = [t \in Slots |->
                 IF t = s THEN r2
                 ELSE IF r2.pc = "done" /\ req[t].pc = "joined" /\ req[t].joinOf = s
                      THEN Return(req[t], r2.result)
                      ELSE req[t]]
    /\ pendingRequests' = IF r2.pc = "done" THEN Finally(pendingRequests, req[s])
                          ELSE pendingRequests

\* The catch block and the loop exit that follows it.  timeouts counts the
\* attempts of this send that the abort timer ended.
Catch(r, error) ==
    LET lastError == error
        retries2 == IF IsRetryable(error) THEN r.retries + 1 ELSE r.retries
        giveUp == ~IsRetryable(error) \/ ~(retries2 <= maxRetries)
        r2 == [r EXCEPT !.retries = retries2,
                        !.timeouts = IF error.name = "AbortError" THEN @ + 1 ELSE @]
    IN IF giveUp
       THEN Return(r2, createErrorResponse(lastError.message, RetryFailedText, r.context))
       ELSE [r2 EXCEPT !.pc = "delay"]

\* Mutant: a timeout or network failure does not mark the server down.
CatchAvailability_Unmarked(error, connected, lastCheck, time) == <<connected, lastCheck>>

\* Availability after the catch block: <<isConnected, lastCheckTime>>.
CatchAvailability(error, connected, lastCheck, time) ==
    IF error.name = "AbortError" \/ Includes(error.message, "NetworkError")
    THEN <<FALSE, time>>
    ELSE <<connected, lastCheck>>

\* Mutant: a response does not refresh the availability state.
ResponseAvailability_Stale(time) == <<isConnected, lastCheckTime>>

\* Availability after fetch resolved with a response.
ResponseAvailability(time) == <<TRUE, time>>

Rest == <<now, ticks, connectionCheckInterval, intervalActive, probeFetch, probeJson,
          destroyed, page>>

Fault ==
    /\ faults < MaxFaults
    /\ faults' = faults + 1

\* fetch resolves with a 2xx response before the abort timer fires.
FetchOk(s) ==
    /\ req[s].pc = "fetch"
    /\ LET av == ResponseAvailability(now)
       IN /\ isConnected' = av[1]
          /\ lastCheckTime' = av[2]
    /\ Install(s, [req[s] EXCEPT !.pc = "json"])
    /\ UNCHANGED Rest
    /\ UNCHANGED faults

\* fetch resolves with a non-2xx response: the try block throws.
FetchNotOk(s) ==
    /\ req[s].pc = "fetch"
    /\ Fault
    /\ LET av == ResponseAvailability(now)
           av2 == CatchAvailability(HttpError, av[1], av[2], now)
       IN /\ isConnected' = av2[1]
          /\ lastCheckTime' = av2[2]
    /\ Install(s, Catch(req[s], HttpError))
    /\ UNCHANGED Rest

\* fetch rejects: the connection failed.
FetchReject(s, error) ==
    /\ req[s].pc = "fetch"
    /\ Fault
    /\ LET av == CatchAvailability(error, isConnected, lastCheckTime, now)
       IN /\ isConnected' = av[1]
          /\ lastCheckTime' = av[2]
    /\ Install(s, Catch(req[s], error))
    /\ UNCHANGED Rest

\* The abort timer fires while fetch is pending.
AbortTimeout(s) ==
    /\ req[s].pc = "fetch"
    /\ Fault
    /\ LET av == CatchAvailability(AbortError, isConnected, lastCheckTime, now)
       IN /\ isConnected' = av[1]
          /\ lastCheckTime' = av[2]
    /\ Install(s, Catch(req[s], AbortError))
    /\ UNCHANGED Rest

\* response.json() resolves: the send returns the parsed body.  The body of
\* a call is named by the send and the attempt that fetched it.
JsonResolve(s) ==
    /\ req[s].pc = "json"
    /\ Install(s, Return(req[s], [payload |-> <<s, req[s].calls>>]))
    /\ UNCHANGED <<isConnected, lastCheckTime, faults>>
    /\ UNCHANGED Rest

\* response.json() rejects: the body is not JSON.
JsonReject(s) ==
    /\ req[s].pc = "json"
    /\ Fault
    /\ LET av == CatchAvailability(SyntaxError, isConnected, lastCheckTime, now)
       IN /\ isConnected' = av[1]
          /\ lastCheckTime' = av[2]
    /\ Install(s, Catch(req[s], SyntaxError))
    /\ UNCHANGED Rest

\* The retry delay elapses: the loop issues the next fetch.
RetryDelayElapsed(s) ==
    /\ req[s].pc = "delay"
    /\ Install(s, [req[s] EXCEPT !.pc = "fetch", !.calls = @ + 1])
    /\ UNCHANGED <<isConnected, lastCheckTime, faults>>
    /\ UNCHANGED Rest

\* ------------------------------------------------------ checkAvailability
ReqRest == <<now, ticks, pendingRequests, connectionCheckInterval, intervalActive,
             req, destroyed, page>>

\* The interval timer fires and starts a probe.
IntervalFire ==
    /\ intervalActive
    /\ probeFetch + probeJson < MaxProbes
    /\ probeFetch' = probeFetch + 1
    /\ UNCHANGED <<isConnected, lastCheckTime, probeJson, faults>>
    /\ UNCHANGED ReqRest

\* The probe's fetch resolves with a 2xx response.
ProbeOk ==
    /\ probeFetch > 0
    /\ probeFetch' = probeFetch - 1
    /\ isConnected' = TRUE
    /\ lastCheckTime' = now
    /\ probeJson' = probeJson + 1
    /\ UNCHANGED faults
    /\ UNCHANGED ReqRest

\* The probe's fetch resolves with a non-2xx response.
ProbeNotOk ==
    /\ probeFetch > 0
    /\ UNCHANGED faults
    /\ probeFetch' = probeFetch - 1
    /\ isConnected' = FALSE
    /\ lastCheckTime' = now
    /\ UNCHANGED probeJson
    /\ UNCHANGED ReqRest

\* The probe's fetch rejects (network failure) or its 3 s timer aborts it.
ProbeReject ==
    /\ probeFetch > 0
    /\ UNCHANGED faults
    /\ probeFetch' = probeFetch - 1
    /\ isConnected' = FALSE
    /\ lastCheckTime' = now
    /\ UNCHANGED probeJson
    /\ UNCHANGED ReqRest

ProbeJsonResolve ==
    /\ probeJson > 0
    /\ probeJson' = probeJson - 1
    /\ UNCHANGED <<isConnected, lastCheckTime, probeFetch, faults>>
    /\ UNCHANGED ReqRest

ProbeJsonReject ==
    /\ probeJson > 0
    /\ UNCHANGED faults
    /\ probeJson' = probeJson - 1
    /\ isConnected' = FALSE
    /\ lastCheckTime' = now
    /\ UNCHANGED probeFetch
    /\ UNCHANGED ReqRest

\* ----------------------------------------------------------------- destroy
\* Mutant: destroy leaves the timer running.
ClearedInterval_Kept(handle, active) == active

\* clearInterval on the stored handle, when the handle is truthy.
ClearedInterval(handle, active) == IF handle # 0 THEN FALSE ELSE active

destroy ==
    /\ intervalActive' = ClearedInterval(connectionCheckInterval, intervalActive)
    /\ UNCHANGED <<now, ticks, isConnected, lastCheckTime, pendingRequests,
                   connectionCheckInterval, probeFetch, probeJson, req, faults, page>>

\* A direct call of the public method.
Destroy ==
    /\ destroyed' = TRUE
    /\ destroy

\* The window's unload handler: calls destroy on the singleton.
Unload ==
    /\ destroyed' = TRUE
    /\ destroy

\* -------------------------------------------------------------------- time
Tick(d) ==
    /\ ticks < MaxTicks
    /\ now' = now + d
    /\ ticks' = ticks + 1
    /\ UNCHANGED <<isConnected, lastCheckTime, pendingRequests, connectionCheckInterval,
                   intervalActive, probeFetch, probeJson, req, destroyed, faults, page>>

Next ==
    \/ \E s \in Slots : \E m \in SendInputs(s) : sendMessage(s, m, ContextOf(s))
    \/ \E s \in Slots : FetchOk(s)
    \/ \E s \in Slots : FetchNotOk(s)
    \/ \E s \in Slots, e \in NetworkErrors : FetchReject(s, e)
    \/ \E s \in Slots : AbortTimeout(s)
    \/ \E s \in Slots : JsonResolve(s)
    \/ \E s \in Slots : JsonReject(s)
    \/ \E s \in Slots : RetryDelayElapsed(s)
    \/ IntervalFire
    \/ ProbeOk
    \/ ProbeNotOk
    \/ ProbeReject
    \/ ProbeJsonResolve
    \/ ProbeJsonReject
    \/ Destroy
    \/ Unload
    \/ \E d \in TickSteps : Tick(d)

Spec == Init /\ [][Next]_vars

\* The abort timer of a fetch, the retry delay and the probe's 3 s timer are
\* timers of the event loop: a pending fetch is answered or aborted, and a
\* retry delay elapses.  Nothing bounds the wait for a response body.
FetchSettles(s) ==
    \/ FetchOk(s)
    \/ FetchNotOk(s)
    \/ \E e \in NetworkErrors : FetchReject(s, e)
    \/ AbortTimeout(s)

ProbeSettles == ProbeOk \/ ProbeNotOk \/ ProbeReject

FairSpec ==
    /\ Spec
    /\ \A s \in Slots : WF_vars(FetchSettles(s))
    /\ \A s \in Slots : WF_vars(RetryDelayElapsed(s))
    /\ WF_vars(ProbeSettles)

\* ------------------------------------------------------------- properties
InFlight(r) == r.pc \in {"fetch", "json", "delay", "joined"}
Executing(r) == r.pc \in {"fetch", "json", "delay"}
Settled(r) == r.pc = "done"
IsErrorResponse(v) ==
    /\ DOMAIN v = {"error", "messages", "context"}
    /\ Len(v.messages) = 1
    /\ v.messages[1].text \in {FailFastText, RetryFailedText}
IsPayload(v) == DOMAIN v = {"payload"}
\* The send whose promise the caller in slot s waits on.
PromiseOf(r, s) == IF r[s].pc = "joined" THEN r[s].joinOf ELSE s

\* C1: a sendMessage call whose message text equals that of a send still in
\* flight issues no backend call of its own and waits on the promise of that
\* send, so both callers get the same payload.  (Stated for calls that the
\* fail-fast rule lets through; a fail-fast call gets the apology instead.)
C1_SameTextOneCall ==
    [][\A s \in Slots, t \in Slots, m \in Messages :
          (/\ sendMessage(s, m, ContextOf(s))
           /\ ~(~isConnected /\ now - lastCheckTime < GraceWindow)
           /\ InFlight(req[t]) /\ req[t].message = m)
          => /\ req'[s].calls = 0
             /\ req'[s].pc = "joined"
             /\ PromiseOf(req', s) = PromiseOf(req, t)]_vars

\* C2: when the third attempt of a send times out after two timed-out
\* attempts, the send returns the synthesized error response and isConnected
\* is false in the state in which it returns.
C2_ThreeTimeouts ==
    [][\A s \in Slots :
          (AbortTimeout(s) /\ req[s].calls = 3 /\ req[s].timeouts = 2)
          => /\ Settled(req'[s])
             /\ req'[s].result = createErrorResponse(AbortError.message, RetryFailedText, ContextOf(s))
             /\ isConnected' = FALSE]_vars

C2_Witness ==
    \E s \in Slots : /\ Settled(req[s]) /\ req[s].timeouts = 3 /\ req[s].calls = 3
                     /\ IsErrorResponse(req[s].result) /\ ~isConnected

\* C3: a send never issues more than three backend calls, and a send that
\* gives up on a timeout or a network failure has issued exactly three.
C3_ThreeCalls ==
    [][\A s \in Slots :
          /\ req'[s].calls <= maxRetries + 1
          /\ ((AbortTimeout(s) \/ \E e \in NetworkErrors : FetchReject(s, e)) /\ Settled(req'[s]))
             => req'[s].calls = maxRetries + 1]_vars

\* C4: an attempt that fails with a non-2xx response or an unparsable body
\* is the last call of its send: the send returns the synthesized error
\* response in the same step, and a settled send issues no further call.
C4_NoRetry ==
    [][\A s \in Slots :
          /\ (FetchNotOk(s) \/ JsonReject(s))
             => /\ Settled(req'[s])
                /\ req'[s].calls = req[s].calls
                /\ IsErrorResponse(req'[s].result)
                /\ req'[s].result.error \in {HttpError.message, SyntaxError.message}
                /\ (req[s].retries = 0 => req'[s].calls = 1)
          /\ Settled(req[s]) => req'[s].calls = req[s].calls]_vars

C4_Witness ==
    \E s \in Slots : /\ Settled(req[s]) /\ req[s].calls = 1
                     /\ IsErrorResponse(req[s].result)
                     /\ req[s].result.error = HttpError.message

\* C5: a sendMessage call made while isConnected is false and less than the
\* grace window has passed since lastCheckTime returns the apology response,
\* issues no backend call, adds no pending entry and leaves isConnected and
\* lastCheckTime as they were.
C5_FailFast ==
    [][\A s \in Slots, m \in Messages :
          (sendMessage(s, m, ContextOf(s)) /\ ~isConnected /\ now - lastCheckTime < GraceWindow)
          => /\ Settled(req'[s])
             /\ req'[s].result = createErrorResponse(FailFastError, FailFastText, ContextOf(s))
             /\ req'[s].calls = 0
             /\ pendingRequests' = pendingRequests
             /\ isConnected' = isConnected
             /\ lastCheckTime' = lastCheckTime]_vars

C5_Witness ==
    \E s \in Slots : /\ Settled(req[s]) /\ req[s].calls = 0
                     /\ IsErrorResponse(req[s].result)
                     /\ req[s].result.messages[1].text = FailFastText
                     /\ ~isConnected /\ now - lastCheckTime < GraceWindow

\* C6: every settled send holds either a parsed payload or an error response
\* with one apology text and the context its own caller passed.
C6_ErrorShape ==
    \A s \in Slots :
        Settled(req[s]) =>
            \/ IsPayload(req[s].result)
            \/ IsErrorResponse(req[s].result) /\ req[s].result.context = ContextOf(s)

\* C7: every pending entry is the entry of a request that has not settled,
\* every unsettled request has its entry, and the map is empty when no send
\* is in flight.
C7_PendingEntries ==
    /\ \A k \in DOMAIN pendingRequests :
          /\ pendingRequests[k] \in Slots
          /\ Executing(req[pendingRequests[k]])
          /\ req[pendingRequests[k]].requestId = k
    /\ \A s \in Slots :
          Executing(req[s]) => /\ MapHas(pendingRequests, req[s].requestId)
                               /\ pendingRequests[req[s].requestId] = s
    /\ \A s \in Slots : req[s].pc = "joined" => Executing(req[req[s].joinOf])
    /\ (\A s \in Slots : ~InFlight(req[s])) => pendingRequests = EmptyMap

C7_Witness ==
    /\ \E s \in Slots : Settled(req[s]) /\ req[s].calls > 0 /\ IsErrorResponse(req[s].result)
    /\ \E s \in Slots : Executing(req[s])
    /\ Cardinality(DOMAIN pendingRequests) = 1

\* C8: every call of sendMessage eventually settles.
C8_Settles == \A s \in Slots : (req[s].pc # "idle") ~> Settled(req[s])

\* C9: when fetch resolves with a 2xx response, isConnected becomes true and
\* lastCheckTime the current time, so the fail-fast test is false right after.
C9_SuccessMarksAvailable ==
    [][\A s \in Slots :
          FetchOk(s) => /\ isConnected' = TRUE
                        /\ lastCheckTime' = now
                        /\ ~(~isConnected' /\ now' - lastCheckTime' < GraceWindow)]_vars

C9_Witness ==
    \E s \in Slots : /\ req[s].pc = "json" /\ req[s].timeouts >= 1
                     /\ isConnected /\ lastCheckTime = now

\* C10: destroy (called directly or by the unload handler) stops the interval
\* timer; once destroy has run no probe is started; a further destroy changes
\* nothing.
C10_Teardown ==
    [][/\ (Destroy \/ Unload) => (destroyed' /\ ~intervalActive')
       /\ destroyed => (~IntervalFire /\ probeFetch' <= probeFetch /\ ~intervalActive')
       /\ ((Destroy \/ Unload) /\ destroyed)
             => UNCHANGED <<now, ticks, isConnected, lastCheckTime, pendingRequests,
                            connectionCheckInterval, intervalActive, probeFetch,
                            probeJson, req>>]_vars

C10_Witness == destroyed /\ ~intervalActive /\ probeFetch = 0 /\ probeJson = 0 /\ ticks > 0

\* =================================================================== text
\* A string is the sequence of its atoms: words, parts of words, blanks and
\* punctuation marks, whose concatenation is the JavaScript string.  The
\* texts and patterns below are cut so that every occurrence of a pattern in
\* a text begins and ends on a cut ("anything" is "anyt", "hi", "ng", because
\* the greeting word "hi" occurs in it), which makes String.includes the
\* search for a contiguous run of atoms.

\* String.toLowerCase on the atoms that hold upper-case letters.
LowerCaseOf ==
    "AB12" :> "ab12" @@ "Arrival" :> "arrival" @@ "Continue" :> "continue" @@
    "Departure" :> "departure" @@ "For" :> "for" @@ "Great" :> "great" @@ "Hello" :> "hello" @@
    "How" :> "how" @@ "I" :> "i" @@ "I'm" :> "i'm" @@ "Is" :> "is" @@ "March" :> "march" @@
    "January" :> "january" @@ "February" :> "february" @@ "April" :> "april" @@
    "May" :> "may" @@ "June" :> "june" @@ "July" :> "july" @@ "August" :> "august" @@
    "September" :> "september" @@ "October" :> "october" @@ "November" :> "november" @@
    "December" :> "december" @@
    "Please" :> "please" @@ "Shall" :> "shall" @@ "Sorry" :> "sorry" @@
    "StayAssist" :> "stayassist" @@ "The" :> "the" @@ "Welcome" :> "welcome" @@ "Your" :> "your"

UpperCaseAtoms == DOMAIN LowerCaseOf
toLowerCase(str) ==
    [i \in 1..Len(str) |-> IF str[i] \in UpperCaseAtoms THEN LowerCaseOf[str[i]] ELSE str[i]]

\* String.trim: blanks and line breaks are white space.
trim(str) ==
    LET solid == {i \in 1..Len(str) : str[i] \notin {" ", "\n"}}
        first == CHOOSE i \in solid : \A j \in solid : i <= j
        last == CHOOSE i \in solid : \A j \in solid : j <= i
    IN IF solid = {} THEN <<>> ELSE SubSeq(str, first, last)

includes(str, pattern) ==
    \E i \in 0..(Len(str) - Len(pattern)) : \A k \in 1..Len(pattern) : str[i + k] = pattern[k]

\* Array.filter: the elements whose index is in kept, in their order.
FilterIndex(array, kept) ==
    LET F[i \in 0..Len(array)] ==
            IF i = 0 THEN <<>>
            ELSE IF i \in kept THEN Append(F[i - 1], array[i]) ELSE F[i - 1]
    IN F[Len(array)]

\* Array.indexOf, counted from 1; 0 when the element is absent.
indexOf(array, x) ==
    IF \E i \in 1..Len(array) : array[i] = x
    THEN CHOOSE i \in 1..Len(array) : array[i] = x /\ \A j \in 1..(i - 1) : array[j] # x
    ELSE 0

\* The patterns the page searches for, lower case as in the source.
Pat ==
    [LetsContinue |-> <<"let's", " ", "continue">>,
     LetsContinueBare |-> <<"lets", " ", "continue">>,
     Continue |-> <<"continue">>,
     Book |-> <<"book">>,
     Booking |-> <<"book", "ing">>,
     InfoSufficient |-> <<"i", " ", "hope", " ", "i've", " ", "provided", " ", "you", " ",
         "with", " ", "sufficient", " ", "information">>,
     InfoAnythingElse |-> <<"is", " ", "there", " ", "anyt", "hi", "ng", " ", "else", " ",
         "you'd", " ", "like", " ", "to", " ", "know">>,
     InfoShallWe |-> <<"shall", " ", "we", " ", "continue", " ", "with", " ", "your", " ",
         "book", "ing">>,
     SorryUnable |-> <<"i'm", " ", "sorry", " ", "i", " ", "am", " ", "unable", " ", "to", " ", "understand", " ", "you">>,
     CouldRephrase |-> <<"could", " ", "you", " ", "please", " ", "rephrase">>,
     Sorry |-> <<"i'm", " ", "sorry">>,
     Unable |-> <<"unable", " ", "to", " ", "understand">>,
     PleaseRephrase |-> <<"please", " ", "rephrase">>,
     UtterRephrase |-> <<"utter_ask_rephrase">>,
     Placeholder |-> <<"placeholder">>,
     Great |-> <<"great">>,
     WhatElse |-> <<"what", " ", "else">>,
     HowAssist |-> <<"how", " ", "can", " ", "i", " ", "assist">>,
     HowHelp |-> <<"how", " ", "can", " ", "i", " ", "help">>,
     BookingReference |-> <<"book", "ing", " ", "reference">>,
     BookingSummary |-> <<"book", "ing", " ", "summary">>,
     YourBookingReference |-> <<"your", " ", "book", "ing", " ", "reference", " ", "is">>,
     WhatElseHelp |-> <<"what", " ", "else", " ", "can", " ", "i", " ", "help">>,
     Welcome |-> <<"welcome">>,
     Guests |-> <<"for", " ", "how", " ", "many", " ", "guests">>,
     WelcomeTo |-> <<"welcome", " ", "to", " ", "stayassist">>,
     Arrival |-> <<"arrival", " ", "date", ":">>,
     Departure |-> <<"departure", " ", "date", ":">>,
     Hello |-> <<"hello">>,
     Hi |-> <<"hi">>,
     Hey |-> <<"hey">>,
     GoodMorning |-> <<"good", " ", "morning">>,
     GoodAfternoon |-> <<"good", " ", "afternoon">>,
     GoodEvening |-> <<"good", " ", "evening">>,
     Greetings |-> <<"greetings">>,
     Hallo |-> <<"hallo">>,
     BookARoom |-> <<"book", " ", "a", " ", "room">>,
     BookRoom |-> <<"book", " ", "room">>,
     WantToBook |-> <<"i", " ", "want", " ", "to", " ", "book">>,
     ReserveARoom |-> <<"reserve", " ", "a", " ", "room">>,
     MakeReservation |-> <<"make", " ", "a", " ", "reservation">>,
     Reserve |-> <<"reserve">>]

\* The texts a backend message can carry and the texts the page itself
\* renders.
Txt ==
    [Empty |-> <<>>,
     Guests |-> <<"For", " ", "how", " ", "many", " ", "guests", "?">>,
     GuestsLower |-> <<"for", " ", "how", " ", "many", " ", "guests", "?", " ">>,
     Welcome |-> <<"Welcome", " ", "to", " ", "StayAssist", ".", " ", "How", " ", "can", " ",
         "I", " ", "assist", " ", "you", " ", "today", "?">>,
     Help |-> <<"How", " ", "can", " ", "I", " ", "help", " ", "you", "?">>,
     Fallback |-> <<"I'm", " ", "sorry", ",", " ", "could", " ", "you", " ", "please", " ",
         "rephrase", "?">>,
     Placeholder |-> <<"placeholder">>,
     InfoAsk |-> <<"Is", " ", "there", " ", "anyt", "hi", "ng", " ", "else", " ", "you'd", " ", "like", " ", "to", " ", "know", "?">>,
     InfoContinue |-> <<"Shall", " ", "we", " ", "continue", " ", "with", " ", "your", " ",
         "book", "ing", "?">>,
     Summary |-> <<"Your", " ", "book", "ing", " ", "reference", " ", "is", " ", "AB12",
         ".">>,
     SummaryContinue |-> <<"Your", " ", "book", "ing", " ", "reference", " ", "is", " ",
         "AB12", ".", " ", "Continue", " ", "to", " ", "payment", ".">>,
     Great |-> <<"Great", ",", " ", "we", " ", "can", " ", "continue", ".">>,
     Dates |-> <<"Please", " ", "select", " ", "your", " ", "dates", ".">>,
     HelloFallback |-> <<"Hello", "!", " ", "How", " ", "can", " ", "I", " ", "help", " ",
         "you", " ", "today", "?">>,
     Processing |-> <<"I'm", " ", "processing", " ", "your", " ", "request", ".", " ",
         "Please", " ", "give", " ", "me", " ", "a", " ", "moment", ".">>,
     Apology |-> <<"I", " ", "apologize", ",", " ", "but", " ", "I", " ", "encountered", " ",
         "an", " ", "issue", " ", "processing", " ", "your", " ", "request", ".", " ",
         "Please", " ", "try", " ", "again", ".">>,
     NetworkError |-> <<"Sorry", ",", " ", "I", " ", "encountered", " ", "a", " ", "network",
         " ", "error", ".", " ", "Please", " ", "try", " ", "again", " ", "later", ".">>,
     RequestError |-> <<"Sorry", ",", " ", "I", " ", "encountered", " ", "an", " ", "error",
         " ", "processing", " ", "that", " ", "request", ".">>,
     Confirm |-> <<"Arrival", " ", "date", ":", " ", "10", " ", "March", " ", "2026", "\n",
         "Departure", " ", "date", ":", " ", "15", " ", "March", " ", "2026", "\n", "\n",
         "The", " ", "arrival", " ", "and", " ", "departure", " ", "dates", " ", "are", " ",
         "available", ".">>]

\* Texts of the user: typed messages, the combined message of a date-range
\* confirmation and the date of a single-date pick.
Usr ==
    [Hello |-> <<"hello">>,
     Ok |-> <<"ok">>,
     BookRoom |-> <<"book", " ", "a", " ", "room">>,
     Dates |-> <<"arrival", " ", "date", ":", " ", "10", " ", "March", " ", "2026", ",", " ",
         "departure", " ", "date", ":", " ", "15", " ", "March", " ", "2026">>,
     SingleDate |-> <<"10", " ", "March", " ", "2026">>]

\* ======================================================== the message feed
\* An entry of the feed is a text turn (a .message element holding one
\* .message-text) or a calendar widget (a .message.bot-message element
\* holding a .calendar-widget and no .message-text).
Turn(sender, text) == [sender |-> sender, kind |-> "text", text |-> text, mode |-> "none"]
WidgetEntry(mode) == [sender |-> "bot", kind |-> "widget", text |-> <<>>, mode |-> mode]

addMessageToChat(dom, sender, text) == Append(dom, Turn(sender, text))
addCalendarWidget(dom, calendarData) == Append(dom, WidgetEntry(calendarData))

\* textContent of a .message-text: addMessageToChat turns every line break
\* into a <br> element, which has no text.
textContent(entry) ==
    LET Shown(a) == a # "\n"
    IN SelectSeq(entry.text, Shown)

\* document.querySelectorAll('.message-text') and
\* document.querySelectorAll('.user-message .message-text'), as texts.
MessageTexts(dom) ==
    LET IsText(e) == e.kind = "text"
        found == SelectSeq(dom, IsText)
    IN [i \in 1..Len(found) |-> textContent(found[i])]
UserMessageTexts(dom) ==
    LET IsUserText(e) == e.kind = "text" /\ e.sender = "user"
        found == SelectSeq(dom, IsUserText)
    IN [i \in 1..Len(found) |-> textContent(found[i])]

\* Array.slice(-n).
HistoryTail == 5
LastOf(array, n) == IF Len(array) <= n THEN array ELSE SubSeq(array, Len(array) - n + 1, Len(array))

\* ============================================================= a payload
\* A message of a payload: an object with a text (absent is the empty text)
\* and possibly a json_message of type calendar with a mode; isNull marks a
\* null entry of the array.
Message(text, calendar) == [isNull |-> FALSE, text |-> text, calendar |-> calendar]
IsCalendar(message) == ~message.isNull /\ message.calendar # "none"

ArrayPayload(messages) == [EmptyObject EXCEPT !.shape = "array", !.messages = messages]
ObjectPayload(messages) == [EmptyObject EXCEPT !.messagesKind = "array", !.messages = messages]

Truthy(resp) == resp.shape \notin {"null", "falsy"}

\* response.messages || (Array.isArray(response) ? response : [])
MessagesOf(resp) ==
    IF resp.shape = "array" \/ (resp.shape = "object" /\ resp.messagesKind = "array")
    THEN resp.messages
    ELSE <<>>

\* The logging loop over the messages calls forEach on a messages member
\* that is no array, and reads json_message of a null message.
Throws(resp) ==
    \/ resp.shape = "object" /\ resp.messagesKind = "malformed"
    \/ \E i \in 1..Len(MessagesOf(resp)) : MessagesOf(resp)[i].isNull

\* ============================================================ reconciling
\* The texts collected from a payload: trimmed, without the empty ones and
\* without the text of a calendar message.
CollectTexts(messages) ==
    LET HasText(m) == ~m.isNull /\ trim(m.text) # <<>> /\ ~IsCalendar(m)
        found == SelectSeq(messages, HasText)
    IN [i \in 1..Len(found) |-> trim(found[i].text)]

\* The calendar messages of a payload, each handed to addCalendarWidget
\* while the texts are still being collected.
CollectWidgets(messages) == SelectSeq(messages, IsCalendar)

RECURSIVE AddWidgets(_, _)
AddWidgets(dom, widgets) ==
    IF widgets = <<>> THEN dom
    ELSE AddWidgets(addCalendarWidget(dom, Head(widgets).calendar), Tail(widgets))

WidgetWithText(messages) ==
    \E i \in 1..Len(messages) : IsCalendar(messages[i]) /\ trim(messages[i].text) # <<>>

existingGreeting(dom) ==
    \E i \in 1..Len(MessageTexts(dom)) :
        LET text == toLowerCase(MessageTexts(dom)[i])
        IN includes(text, Pat.WelcomeTo) /\ includes(text, Pat.HowAssist)

\* The filter of "Let's continue" and continue-with-booking texts.
FilterContinue(allMessages) ==
    LET Unwanted(msg) ==
            LET msgLower == toLowerCase(msg)
            IN \/ includes(msgLower, Pat.LetsContinue)
               \/ includes(msgLower, Pat.LetsContinueBare)
               \/ /\ includes(msgLower, Pat.Continue)
                  /\ includes(msgLower, Pat.Book) \/ includes(msgLower, Pat.Booking)
    IN FilterIndex(allMessages, {i \in 1..Len(allMessages) : ~Unwanted(allMessages[i])})

IsInfoQuestion(text) ==
    LET lower == toLowerCase(text)
    IN \/ includes(lower, Pat.InfoSufficient)
       \/ includes(lower, Pat.InfoAnythingElse)
       \/ includes(lower, Pat.InfoShallWe)

hasInfoQuestionInDOM(dom) ==
    LET previousMessages == LastOf(MessageTexts(dom), HistoryTail)
    IN \E i \in 1..Len(previousMessages) : IsInfoQuestion(previousMessages[i])

hasInfoQuestionInResponse(allMessages) ==
    \E i \in 1..Len(allMessages) : IsInfoQuestion(allMessages[i])

fallbackPhrases ==
    {Pat.SorryUnable, Pat.CouldRephrase, Pat.Sorry, Pat.Unable, Pat.PleaseRephrase, Pat.UtterRephrase}

isFallback(msg) == \E phrase \in fallbackPhrases : includes(toLowerCase(msg), phrase)

\* Mutant: placeholder texts pass.
IsPlaceholder_Never(msg) == FALSE

IsPlaceholder(msg) ==
    LET msgNormalized == trim(toLowerCase(msg))
    IN msgNormalized = Pat.Placeholder \/ includes(msgNormalized, Pat.Placeholder)

IsGreatContinue(msg) ==
    includes(toLowerCase(msg), Pat.Great) /\ includes(toLowerCase(msg), Pat.Continue)

\* The placeholder and fallback filter.
FilterFallback(allMessages, hasInfoQuestion) ==
    LET Keep(i) ==
            LET msg == allMessages[i]
                msgIndex == indexOf(allMessages, msg)
            IN /\ ~IsPlaceholder(msg)
               /\ ~(isFallback(msg) /\ hasInfoQuestion)
               /\ ~(msgIndex > 1 /\ IsGreatContinue(allMessages[msgIndex - 1]) /\ isFallback(msg))
    IN FilterIndex(allMessages, {i \in 1..Len(allMessages) : Keep(i)})

\* A help question right after a "great ... continue" text: only the first
\* text is kept.
FirstAfterGreat(allMessages) ==
    IF /\ Len(allMessages) >= 2
       /\ IsGreatContinue(allMessages[1])
       /\ LET secondMsg == toLowerCase(allMessages[2])
          IN \/ includes(secondMsg, Pat.WhatElse)
             \/ includes(secondMsg, Pat.HowAssist)
             \/ includes(secondMsg, Pat.HowHelp)
    THEN <<allMessages[1]>>
    ELSE allMessages

bookingSummaryIndicators == {Pat.BookingReference, Pat.BookingSummary, Pat.YourBookingReference}

IsBookingSummary(msg) ==
    \E indicator \in bookingSummaryIndicators : includes(toLowerCase(msg), indicator)

hasBookingSummary(allMessages) ==
    \E i \in 1..Len(allMessages) : IsBookingSummary(allMessages[i])

isHelpMessage(msg) ==
    LET msgLower == toLowerCase(msg)
    IN \/ includes(msgLower, Pat.WhatElseHelp)
       \/ includes(msgLower, Pat.HowAssist)
       \/ includes(msgLower, Pat.HowHelp)

\* Mutant: the help questions stay after a booking summary.
FilterHelpAfterSummary_Keep(allMessages) == allMessages

FilterHelpAfterSummary(allMessages) ==
    IF hasBookingSummary(allMessages)
    THEN FilterIndex(allMessages, {i \in 1..Len(allMessages) : ~isHelpMessage(allMessages[i])})
    ELSE allMessages

normalized(msg) == trim(toLowerCase(msg))

\* Mutant: a text seen before is kept.
Seen_Never(allMessages, i) == FALSE

\* seenNormalized.has(normalized) when the loop reaches index i.
Seen(allMessages, i) ==
    \E j \in 1..(i - 1) : normalized(allMessages[j]) = normalized(allMessages[i])

uniqueMessages(allMessages) ==
    FilterIndex(allMessages, {i \in 1..Len(allMessages) : ~Seen(allMessages, i)})

IsGreetingText(msg) ==
    LET firstMessage == toLowerCase(msg)
    IN \/ includes(firstMessage, Pat.Welcome)
       \/ includes(firstMessage, Pat.HowAssist)
       \/ includes(firstMessage, Pat.HowHelp)

\* Mutant: the texts after a greeting are kept.
GreetingOnly_All(allMessages) == allMessages

\* Several texts of which the first is a greeting: only the greeting stays.
GreetingOnly(allMessages) ==
    IF Len(allMessages) > 1 /\ IsGreetingText(allMessages[1])
    THEN <<allMessages[1]>>
    ELSE allMessages

\* Of the texts that ask for the number of guests only the first stays.
FirstGuestsQuestion(allMessages) ==
    LET IsGuestsQuestion(msg) == includes(toLowerCase(msg), Pat.Guests)
        Keep(i) ==
            \/ ~IsGuestsQuestion(allMessages[i])
            \/ \A j \in 1..(i - 1) : ~IsGuestsQuestion(allMessages[j])
    IN FilterIndex(allMessages, {i \in 1..Len(allMessages) : Keep(i)})

IsWelcomeGreeting(msg) ==
    LET msgLower == toLowerCase(msg)
    IN includes(msgLower, Pat.WelcomeTo) /\ includes(msgLower, Pat.HowAssist)

FilterExistingGreeting(allMessages, existing) ==
    IF existing
    THEN FilterIndex(allMessages, {i \in 1..Len(allMessages) : ~IsWelcomeGreeting(allMessages[i])})
    ELSE allMessages

\* The texts of a payload that handleRasaResponse displays, in the order of
\* its filters.
BeforeSummary(messages, dom) ==
    LET collected == CollectTexts(messages)
        continued == FilterContinue(collected)
        hasInfoQuestion == hasInfoQuestionInDOM(dom) \/ hasInfoQuestionInResponse(continued)
        answered == FilterFallback(continued, hasInfoQuestion)
    IN FirstAfterGreat(answered)

BeforeUnique(messages, dom) == FilterHelpAfterSummary(BeforeSummary(messages, dom))

AfterUnique(allMessages, dom) ==
    FilterExistingGreeting(FirstGuestsQuestion(GreetingOnly(allMessages)), existingGreeting(dom))

Displayed(messages, dom) == AfterUnique(uniqueMessages(BeforeUnique(messages, dom)), dom)

RECURSIVE Display(_, _)
Display(dom, allMessages) ==
    IF allMessages = <<>> THEN dom
    ELSE Display(addMessageToChat(dom, "bot", Head(allMessages)), Tail(allMessages))

\* Mutant: the stored context wins over the payload's.
MergeContext_PriorWins(prior, update) ==
    [k \in (DOMAIN prior) \cup (DOMAIN update) |-> IF k \in DOMAIN prior THEN prior[k] ELSE update[k]]

\* { ...conversationContext, ...response.context }
MergeContext(prior, update) ==
    [k \in (DOMAIN prior) \cup (DOMAIN update) |-> IF k \in DOMAIN update THEN update[k] ELSE prior[k]]

UpdatedContext(resp, context) ==
    IF resp.shape = "object" /\ resp.hasContext THEN MergeContext(context, resp.context) ELSE context

greetingWords ==
    {Pat.Hello, Pat.Hi, Pat.Hey, Pat.GoodMorning, Pat.GoodAfternoon, Pat.GoodEvening,
     Pat.Greetings, Pat.Hallo}

\* The text of the last user turn of the feed, lower case and trimmed; the
\* empty text when the feed has no user turn.
LastUserText(dom) ==
    LET lastUserMessage == UserMessageTexts(dom)
    IN IF Len(lastUserMessage) > 0
       THEN trim(toLowerCase(lastUserMessage[Len(lastUserMessage)]))
       ELSE <<>>

isDateConfirmation(dom) ==
    includes(LastUserText(dom), Pat.Arrival) /\ includes(LastUserText(dom), Pat.Departure)

isGreeting(dom) == \E word \in greetingWords : includes(LastUserText(dom), word)

\* The end of handleRasaResponse when no turn was added and the payload has
\* no actions.
FallbackTurn(dom) ==
    IF isDateConfirmation(dom) THEN dom
    ELSE IF isGreeting(dom) THEN addMessageToChat(dom, "bot", Txt.HelloFallback)
    ELSE addMessageToChat(dom, "bot", Txt.Processing)

Outcome(dom, context, threw) == [feed |-> dom, conversationContext |-> context, threw |-> threw]

\* handleRasaResponse(response, timestamp): the feed and the context it
\* leaves, or the exception it throws before it changed either.
handleRasaResponse(resp, dom, context) ==
    IF ~Truthy(resp) THEN Outcome(dom, context, FALSE)
    ELSE IF Throws(resp) THEN Outcome(dom, context, TRUE)
    ELSE LET messages == MessagesOf(resp)
             withWidgets == AddWidgets(dom, CollectWidgets(messages))
             allMessages == Displayed(messages, withWidgets)
             displayed == Display(withWidgets, allMessages)
             messageAdded == WidgetWithText(messages) \/ allMessages # <<>>
         IN IF messageAdded \/ Len(resp.actions) > 0
            THEN Outcome(displayed, UpdatedContext(resp, context), FALSE)
            ELSE Outcome(FallbackTurn(displayed), UpdatedContext(resp, context), FALSE)

\* ================================================= reconciling one payload
\* handleRasaResponse applied to a drawn payload in a drawn state of the
\* page.
\* The batches of up to MaxBatch messages: thirteen plain texts, a booking
\* calendar without a text and one with a text.
Batches ==
    LET BotTexts ==
            {Txt.Empty, Txt.Guests, Txt.GuestsLower, Txt.Welcome, Txt.Help, Txt.Fallback,
             Txt.Placeholder, Txt.InfoAsk, Txt.InfoContinue, Txt.Summary, Txt.SummaryContinue,
             Txt.Great, Txt.Dates}
        MessageSet ==
            {Message(text, "none") : text \in BotTexts}
                \cup {Message(Txt.Empty, "booking"), Message(Txt.Dates, "booking")}
    IN UNION {[1..n -> MessageSet] : n \in 0..MaxBatch}

StoredContext == [guests |-> 2, room_type |-> "double"]
PayloadContext == [guests |-> 3, nights |-> 1]
ShowRooms == <<"show_rooms">>

\* The payloads that carry a batch: the bare array, and the object without
\* and with a context and actions.
PayloadsOf(batch) ==
    {ArrayPayload(batch),
     ObjectPayload(batch),
     [ObjectPayload(batch) EXCEPT !.actions = ShowRooms],
     [ObjectPayload(batch) EXCEPT !.hasContext = TRUE, !.context = PayloadContext],
     [ObjectPayload(batch) EXCEPT !.hasContext = TRUE, !.context = PayloadContext,
                                  !.actions = ShowRooms]}

\* States of the page in which a response arrives: after a greeting of the
\* user; after the backend asked whether the user wants to know more; after
\* the chat was cleared and the user typed; after a date-range confirmation;
\* and with the backend's question six texts back.
Pages ==
    LET Greeted == <<Turn("bot", Txt.Welcome), Turn("user", Usr.Hello)>>
        Asked ==
            <<Turn("bot", Txt.Welcome), Turn("user", Usr.BookRoom), Turn("bot", Txt.InfoAsk),
              Turn("user", Usr.Ok)>>
        Cleared == <<Turn("user", Usr.Ok)>>
        Confirmed ==
            <<Turn("bot", Txt.Welcome), Turn("user", Usr.BookRoom), WidgetEntry("booking"),
              Turn("user", Usr.Dates), Turn("bot", Txt.Confirm)>>
        AskedLongAgo ==
            <<Turn("bot", Txt.InfoAsk), Turn("user", Usr.Ok), Turn("bot", Txt.Dates),
              Turn("user", Usr.Ok), Turn("bot", Txt.Dates), Turn("user", Usr.Ok)>>
    IN {[feed |-> Greeted, conversationContext |-> EmptyContext],
        [feed |-> Asked, conversationContext |-> StoredContext],
        [feed |-> Cleared, conversationContext |-> EmptyContext],
        [feed |-> Confirmed, conversationContext |-> StoredContext],
        [feed |-> AskedLongAgo, conversationContext |-> StoredContext]}

ReconcileInit ==
    /\ TransportInit
    /\ \E p \in Pages : feed = p.feed /\ conversationContext = p.conversationContext
    /\ appReq = [c \in Cycles |-> IdleAppReq]
    /\ greetingTimer = FALSE
    /\ \E batch \in Batches : response \in PayloadsOf(batch)
    /\ renderedFrom = NotCalled
    /\ calendarWidget = [mode |-> "none"]
    /\ isTyping = FALSE
    /\ typingMessage = FALSE

Reconcile ==
    /\ renderedFrom = NotCalled
    /\ \E out \in {handleRasaResponse(response, feed, conversationContext)} :
           /\ feed' = out.feed
           /\ conversationContext' = out.conversationContext
    /\ renderedFrom' = Len(feed)
    /\ UNCHANGED <<appReq, greetingTimer, response, calendarWidget, typing, transport>>

ReconcileSpec == ReconcileInit /\ [][Reconcile]_vars

\* The entries the call appended to the feed, and the text turns among them.
Reconciled == renderedFrom # NotCalled
Rendered == SubSeq(feed, renderedFrom + 1, Len(feed))
RenderedTexts ==
    LET IsText(e) == e.kind = "text"
        found == SelectSeq(Rendered, IsText)
    IN [i \in 1..Len(found) |-> found[i].text]
History == SubSeq(feed, 1, renderedFrom)

\* =================================================================== dates
\* A Date at local midnight is a number that grows with the calendar, as
\* getTime() does: Date(year, month, day) with the month counted from 0.
\* null is 0, which is falsy and no date.
NullDate == 0
Date(year, month, day) == (year * 12 + month) * 31 + day
getDate(date) == ((date - 1) % 31) + 1
getMonth(date) == ((date - 1) \div 31) % 12
getFullYear(date) == ((date - 1) \div 31) \div 12

monthNames ==
    <<"January", "February", "March", "April", "May", "June", "July", "August",
      "September", "October", "November", "December">>

\* new Date(displayYear, displayMonth + 1, 0).getDate()
daysInMonth(year, month) ==
    IF month = 1
    THEN IF (year % 4 = 0 /\ year % 100 # 0) \/ year % 400 = 0 THEN 29 ELSE 28
    ELSE IF month \in {3, 5, 8, 10} THEN 30 ELSE 31

\* toLocaleDateString('en-GB', {day: 'numeric', month: 'long', year:
\* 'numeric'}): "10 March 2026".
toLocaleDateString(date) ==
    <<ToString(getDate(date)), " ", monthNames[getMonth(date) + 1], " ",
      ToString(getFullYear(date))>>

\* Mutant: the departure date comes first.
combinedMessage_DepartureFirst(arrivalStr, departureStr) ==
    <<"departure", " ", "date", ":", " ">> \o departureStr
        \o <<",", " ", "arrival", " ", "date", ":", " ">> \o arrivalStr

\* `arrival date: ${arrivalStr}, departure date: ${departureStr}`
combinedMessage(arrivalStr, departureStr) ==
    <<"arrival", " ", "date", ":", " ">> \o arrivalStr
        \o <<",", " ", "departure", " ", "date", ":", " ">> \o departureStr

\* The confirmation the page itself renders.
confirmMessage(arrivalStr, departureStr) ==
    <<"Arrival", " ", "date", ":", " ">> \o arrivalStr
        \o <<"\n", "Departure", " ", "date", ":", " ">> \o departureStr
        \o <<"\n", "\n", "The", " ", "arrival", " ", "and", " ", "departure", " ", "dates",
             " ", "are", " ", "available", ".">>

\* ================================================================ the page
\* The send paths of the page.  Each of them calls fetch itself; none calls
\* window.rasaAPI, so the transport client takes no step in these runs.
TypedTexts == {Usr.Hello, Usr.BookRoom}

\* The response bodies the backend answers with: null; an empty object; an
\* empty list of messages; actions alone; a text and a booking calendar with
\* a context that holds slots; the same two messages as a bare array; a
\* single-date calendar alone; a messages member that is no array; and a
\* fallback_response.
AppPayloads ==
    {NullPayload,
     EmptyObject,
     ObjectPayload(<<>>),
     [ObjectPayload(<<>>) EXCEPT !.actions = ShowRooms],
     [ObjectPayload(<<Message(Txt.Dates, "none"), Message(Txt.Empty, "booking")>>)
         EXCEPT !.hasContext = TRUE,
                !.context = [slots |-> [guests |-> "2", room_type |-> "double"]]],
     ArrayPayload(<<Message(Txt.Dates, "none"), Message(Txt.Empty, "booking")>>),
     ObjectPayload(<<Message(Txt.Empty, "arrival")>>),
     [EmptyObject EXCEPT !.messagesKind = "malformed"],
     [EmptyObject EXCEPT !.fallbackResponse = "array"]}

\* showTypingIndicator(): a .typing-message element is appended unless
\* isTyping is set.
showTypingIndicator ==
    /\ isTyping' = TRUE
    /\ typingMessage' = IF isTyping THEN typingMessage ELSE TRUE

\* hideTypingIndicator(): the .typing-message element, if there is one, is
\* removed and isTyping is reset.
hideTypingIndicator ==
    /\ isTyping' = FALSE
    /\ typingMessage' = FALSE

NextCycle(c) == appReq[c].pc = "idle" /\ \A d \in Cycles : d < c => appReq[d].pc # "idle"
\* fetch('/api/send_message', ...) with the body {message, context}.
Issue(c, path, message, context) ==
    [appReq EXCEPT ![c] = [pc |-> "fetch", path |-> path, message |-> message,
                           context |-> context]]
Handled(c) == [appReq EXCEPT ![c].pc = "done"]

\* The greeting timer of initChatbot.
GreetingTimer ==
    /\ greetingTimer
    /\ greetingTimer' = FALSE
    /\ feed' = IF Len(feed) = 0 /\ ~typingMessage
                THEN addMessageToChat(feed, "bot", Txt.Welcome)
                ELSE feed
    /\ UNCHANGED <<conversationContext, appReq, response, renderedFrom, calendarWidget, typing,
                   transport>>

bookingPhrases ==
    {Pat.BookARoom, Pat.BookRoom, Pat.WantToBook, Pat.ReserveARoom, Pat.MakeReservation,
     Pat.Reserve, Pat.Booking}
BookingSlots ==
    {"guests", "room_type", "arrival_date", "departure_date", "nights", "rooms",
     "payment_option"}

\* Mutant: the slots are left as they are.
ResetBookingSlots_Keep(context) == context

\* conversationContext.slots with every booking slot set to null.
ResetBookingSlots(context) ==
    LET slots == IF "slots" \in DOMAIN context THEN context.slots ELSE EmptyContext
        cleared == [k \in (DOMAIN slots) \cup BookingSlots |->
                        IF k \in BookingSlots THEN "null" ELSE slots[k]]
    IN [k \in (DOMAIN context) \cup {"slots"} |-> IF k = "slots" THEN cleared ELSE context[k]]

\* sendMessage() of the page: the user sends the text of the input field.
sendTypedMessage(c, text) ==
    /\ NextCycle(c)
    /\ trim(text) # <<>>
    /\ LET message == trim(text)
           messageLower == trim(toLowerCase(message))
       IN /\ feed' = addMessageToChat(feed, "user", message)
          /\ conversationContext' =
                 IF \E phrase \in bookingPhrases : includes(messageLower, phrase)
                 THEN ResetBookingSlots(conversationContext)
                 ELSE conversationContext
    /\ showTypingIndicator
    /\ appReq' = Issue(c, "sendMessage", trim(text), conversationContext')
    /\ UNCHANGED <<greetingTimer, response, renderedFrom, calendarWidget, transport>>

\* A click on a date of a single-date calendar.
sendToRasa(c, message) ==
    /\ NextCycle(c)
    /\ \E i \in 1..Len(feed) : feed[i].kind = "widget" /\ feed[i].mode # "booking"
    /\ feed' = addMessageToChat(feed, "user", message)
    /\ showTypingIndicator
    /\ appReq' = Issue(c, "sendToRasa", message, conversationContext)
    /\ UNCHANGED <<conversationContext, greetingTimer, response, renderedFrom, calendarWidget,
                   transport>>

\* The click handler of the confirm button with both dates chosen: the two
\* turns and the 200 ms timer that holds the combined message.
confirmButtonClick(c, selectedArrivalDate, selectedDepartureDate) ==
    /\ NextCycle(c)
    /\ LET arrivalStr == toLocaleDateString(selectedArrivalDate)
           departureStr == toLocaleDateString(selectedDepartureDate)
       IN /\ feed' = addMessageToChat(
                         addMessageToChat(feed, "user",
                                          combinedMessage(arrivalStr, departureStr)),
                         "bot", confirmMessage(arrivalStr, departureStr))
          /\ appReq' = [appReq EXCEPT ![c] =
                            [pc |-> "timer", path |-> "sendToRasaWithoutUserMessage",
                             message |-> combinedMessage(arrivalStr, departureStr),
                             context |-> EmptyContext]]
    /\ UNCHANGED <<conversationContext, greetingTimer, response, renderedFrom, typing,
                   transport>>

\* A click on the confirm button of a booking calendar in which the user
\* chose 10 and 15 March 2026.
ConfirmDates(c) ==
    /\ \E i \in 1..Len(feed) : feed[i].kind = "widget" /\ feed[i].mode = "booking"
    /\ confirmButtonClick(c, Date(2026, 2, 10), Date(2026, 2, 15))
    /\ UNCHANGED calendarWidget

\* Mutant: the send renders the message as a user turn again.
sendToRasaWithoutUserMessage_Echo(c) ==
    /\ appReq[c].pc = "timer"
    /\ appReq' = Issue(c, "sendToRasaWithoutUserMessage", appReq[c].message,
                       conversationContext)
    /\ feed' = addMessageToChat(feed, "user", appReq[c].message)
    /\ showTypingIndicator
    /\ UNCHANGED <<conversationContext, greetingTimer, response, renderedFrom,
                   calendarWidget, transport>>

\* The 200 ms timer of the confirm button fires.
sendToRasaWithoutUserMessage(c) ==
    /\ appReq[c].pc = "timer"
    /\ appReq' = Issue(c, "sendToRasaWithoutUserMessage", appReq[c].message,
                       conversationContext)
    /\ showTypingIndicator
    /\ UNCHANGED <<feed, conversationContext, greetingTimer, response, renderedFrom,
                   calendarWidget, transport>>

\* try { ... } catch: the outcome of the handler, or what the catch leaves
\* when the handler threw.
TryCatch(out, caught) == IF out.threw THEN caught ELSE out

\* The handler of the decoded response in sendMessage().
ThenOfSendMessage(data, dom, context) ==
    IF data.shape = "null"
    THEN Outcome(addMessageToChat(dom, "bot", Txt.Apology), context, FALSE)
    ELSE IF data.shape = "object" /\ data.fallbackResponse = "array"
    THEN Outcome(addMessageToChat(dom, "bot", Txt.Fallback), context, FALSE)
    ELSE IF data.shape = "object" /\ data.fallbackResponse # "absent"
    THEN Outcome(addMessageToChat(dom, "bot", Txt.Apology), context, FALSE)
    ELSE TryCatch(handleRasaResponse(data, dom, context),
                  Outcome(addMessageToChat(dom, "bot", Txt.Apology), context, FALSE))

\* The handler of the decoded response in sendToRasa, with its catch.
ThenOfSendToRasa(data, dom, context) ==
    TryCatch(handleRasaResponse(data, dom, context),
             Outcome(addMessageToChat(dom, "bot", Txt.RequestError), context, FALSE))

\* !data || (!data.messages && !data.actions && !data.error)
NothingToProcess(data) ==
    \/ ~Truthy(data)
    \/ /\ ~(data.shape = "object" /\ data.messagesKind # "absent")
       /\ Len(data.actions) = 0
       /\ ~data.hasError

\* The handler of the decoded response in sendToRasaWithoutUserMessage, with
\* its catch.
ThenOfSendWithoutUserMessage(data, dom, context) ==
    IF NothingToProcess(data) THEN Outcome(dom, context, FALSE)
    ELSE TryCatch(handleRasaResponse(data, dom, context), Outcome(dom, context, FALSE))

Then(path, data, dom, context) ==
    IF path = "sendMessage" THEN ThenOfSendMessage(data, dom, context)
    ELSE IF path = "sendToRasa" THEN ThenOfSendToRasa(data, dom, context)
    ELSE ThenOfSendWithoutUserMessage(data, dom, context)

\* The catch of a send path: the response was not ok, fetch rejected, or the
\* body was no JSON.
CatchOf(path, dom) ==
    IF path = "sendMessage" THEN addMessageToChat(dom, "bot", Txt.NetworkError)
    ELSE IF path = "sendToRasa" THEN addMessageToChat(dom, "bot", Txt.RequestError)
    ELSE dom

\* The backend answers a request with a body.
FetchResolved(c, data) ==
    /\ appReq[c].pc = "fetch"
    /\ \E out \in {Then(appReq[c].path, data, feed, conversationContext)} :
           /\ feed' = out.feed
           /\ conversationContext' = out.conversationContext
    /\ hideTypingIndicator
    /\ appReq' = Handled(c)
    /\ UNCHANGED <<greetingTimer, response, renderedFrom, calendarWidget, transport>>

\* The request fails.
FetchFailed(c) ==
    /\ appReq[c].pc = "fetch"
    /\ feed' = CatchOf(appReq[c].path, feed)
    /\ hideTypingIndicator
    /\ appReq' = Handled(c)
    /\ UNCHANGED <<conversationContext, greetingTimer, response, renderedFrom, calendarWidget,
                   transport>>

\* clearChat() with the dialog confirmed: every .message element is removed,
\* the typing indicator among them, and the context is reset; isTyping is
\* left as it is.
clearChat ==
    /\ feed' = <<>>
    /\ typingMessage' = FALSE
    /\ conversationContext' = EmptyContext
    /\ UNCHANGED <<isTyping, appReq, greetingTimer, response, renderedFrom, calendarWidget,
                   transport>>

AppNext ==
    \/ GreetingTimer
    \/ clearChat
    \/ \E c \in Cycles, text \in TypedTexts : sendTypedMessage(c, text)
    \/ \E c \in Cycles : sendToRasa(c, Usr.SingleDate)
    \/ \E c \in Cycles : ConfirmDates(c)
    \/ \E c \in Cycles : sendToRasaWithoutUserMessage(c)
    \/ \E c \in Cycles, data \in AppPayloads : FetchResolved(c, data)
    \/ \E c \in Cycles : FetchFailed(c)

AppSpec == Init /\ [][AppNext]_vars

\* ======================================================= the calendar widget
\* One calendar widget of the feed and the clicks of the user on it.  The
\* user navigates at most MaxMonths months away from the current month and
\* the widget issues at most MaxPicks requests.

\* The days of the displayed month the user clicks on.
ClickDays == {8, 10, 15}

\* Mutant: no cell is disabled.
updateCalendar_NoFloor(w) ==
    [w EXCEPT !.clickable =
        {Date(w.displayYear, w.displayMonth, day) :
            day \in 1..daysInMonth(w.displayYear, w.displayMonth)}]

\* updateCalendar(): the date cells of the displayed month that get a click
\* handler, which are the cells that are not disabled.
updateCalendar(w) ==
    LET calendarData == w.calendarData
        minDateOnly == IF calendarData.min_date # NullDate THEN calendarData.min_date ELSE w.today
        disabled(cellDate) ==
            \/ cellDate < minDateOnly
            \/ /\ calendarData.mode = "departure"
               /\ calendarData.arrival_date # NullDate
               /\ cellDate <= calendarData.arrival_date
            \/ /\ calendarData.mode = "booking"
               /\ w.selectedArrivalDate # NullDate
               /\ cellDate < w.selectedArrivalDate
        cells == {Date(w.displayYear, w.displayMonth, day) :
                     day \in 1..daysInMonth(w.displayYear, w.displayMonth)}
    IN [w EXCEPT !.clickable = {cellDate \in cells : ~disabled(cellDate)}]

\* The widget that addCalendarWidget builds: the current month displayed,
\* no date selected, the confirm container hidden, no alert shown yet.
NewCalendar(calendarData, today) ==
    updateCalendar(
        [calendarData |-> calendarData, today |-> today,
         displayMonth |-> getMonth(today), displayYear |-> getFullYear(today),
         selectedArrivalDate |-> NullDate, selectedDepartureDate |-> NullDate,
         confirmDisplay |-> "none", clickable |-> {}, alerted |-> FALSE])

\* The widget is created on 8 December 2026, after the user asked for a
\* room, from the calendar data of the backend: a booking calendar; an
\* arrival calendar without a floor or with the 10th of the month as
\* min_date; or a departure calendar without or with the 10th of the month
\* as arrival_date.
PickerInit ==
    /\ TransportInit
    /\ LET today == Date(2026, 11, 8)
           tenth == Date(2026, 11, 10)
           calendarDatas ==
               {[mode |-> "booking", min_date |-> NullDate, arrival_date |-> NullDate]}
               \cup {[mode |-> "arrival", min_date |-> floor, arrival_date |-> NullDate] :
                        floor \in {NullDate, tenth}}
               \cup {[mode |-> "departure", min_date |-> NullDate,
                      arrival_date |-> arrival] : arrival \in {NullDate, tenth}}
       IN \E calendarData \in calendarDatas :
              /\ calendarWidget = NewCalendar(calendarData, today)
              /\ feed = addCalendarWidget(<<Turn("user", Usr.BookRoom)>>, calendarData.mode)
    /\ conversationContext = EmptyContext
    /\ appReq = [c \in Cycles |-> IdleAppReq]
    /\ greetingTimer = FALSE
    /\ response = NullPayload
    /\ renderedFrom = NotCalled
    /\ isTyping = FALSE
    /\ typingMessage = FALSE

\* Mutant: any second click sets the departure date.
dateCellClicked_AnyOrder(w, cellDate) ==
    IF w.selectedArrivalDate = NullDate
          \/ (w.selectedArrivalDate # NullDate /\ w.selectedDepartureDate # NullDate)
    THEN [w EXCEPT !.selectedArrivalDate = cellDate, !.selectedDepartureDate = NullDate]
    ELSE [w EXCEPT !.selectedDepartureDate = cellDate, !.confirmDisplay = "block"]

\* Mutant: a click that is not after the arrival date starts a new selection.
dateCellClicked_Restart(w, cellDate) ==
    IF w.selectedArrivalDate = NullDate
          \/ (w.selectedArrivalDate # NullDate /\ w.selectedDepartureDate # NullDate)
          \/ cellDate <= w.selectedArrivalDate
    THEN [w EXCEPT !.selectedArrivalDate = cellDate, !.selectedDepartureDate = NullDate]
    ELSE [w EXCEPT !.selectedDepartureDate = cellDate, !.confirmDisplay = "block"]

\* The click handler of a date cell in booking mode: a new selection, the
\* departure date, or the alert.
dateCellClicked(w, cellDate) ==
    IF w.selectedArrivalDate = NullDate
          \/ (w.selectedArrivalDate # NullDate /\ w.selectedDepartureDate # NullDate)
    THEN [w EXCEPT !.selectedArrivalDate = cellDate, !.selectedDepartureDate = NullDate]
    ELSE IF cellDate > w.selectedArrivalDate
    THEN [w EXCEPT !.selectedDepartureDate = cellDate, !.confirmDisplay = "block"]
    ELSE [w EXCEPT !.alerted = TRUE]

\* The cell of a day of the displayed month.
CellDate(day) == Date(calendarWidget.displayYear, calendarWidget.displayMonth, day)

\* The user clicks on a date cell of a booking calendar.
dateCellClick(day) ==
    /\ calendarWidget.calendarData.mode = "booking"
    /\ CellDate(day) \in calendarWidget.clickable
    /\ calendarWidget' = dateCellClicked(calendarWidget, CellDate(day))
    /\ UNCHANGED <<feed, conversationContext, appReq, greetingTimer, response, renderedFrom,
                   typing, transport>>

\* Mutant: the date of today is sent.
singleDateClick_Today(c, day) ==
    /\ calendarWidget.calendarData.mode # "booking"
    /\ CellDate(day) \in calendarWidget.clickable
    /\ sendToRasa(c, toLocaleDateString(calendarWidget.today))

\* The user clicks on a date cell of a single-date calendar.
singleDateClick(c, day) ==
    /\ calendarWidget.calendarData.mode # "booking"
    /\ CellDate(day) \in calendarWidget.clickable
    /\ sendToRasa(c, toLocaleDateString(CellDate(day)))

\* The months between the current month and the displayed month.
MonthsAway(w) ==
    (w.displayYear * 12 + w.displayMonth) - (getFullYear(w.today) * 12 + getMonth(w.today))

\* The click handler of the previous-month button.
prevButtonClick ==
    /\ MonthsAway(calendarWidget) > 0 - MaxMonths
    /\ calendarWidget' =
           updateCalendar(
               IF calendarWidget.displayMonth - 1 < 0
               THEN [calendarWidget EXCEPT !.displayMonth = 11, !.displayYear = @ - 1]
               ELSE [calendarWidget EXCEPT !.displayMonth = @ - 1])
    /\ UNCHANGED <<feed, conversationContext, appReq, greetingTimer, response, renderedFrom,
                   typing, transport>>

\* Mutant: navigation clears the selection.
nextButtonClick_Clear ==
    /\ MonthsAway(calendarWidget) < MaxMonths
    /\ calendarWidget' =
           updateCalendar(
               [calendarWidget EXCEPT !.displayMonth = (@ + 1) % 12,
                                      !.selectedArrivalDate = NullDate,
                                      !.selectedDepartureDate = NullDate])
    /\ UNCHANGED <<feed, conversationContext, appReq, greetingTimer, response, renderedFrom,
                   typing, transport>>

\* The click handler of the next-month button.
nextButtonClick ==
    /\ MonthsAway(calendarWidget) < MaxMonths
    /\ calendarWidget' =
           updateCalendar(
               IF calendarWidget.displayMonth + 1 > 11
               THEN [calendarWidget EXCEPT !.displayMonth = 0, !.displayYear = @ + 1]
               ELSE [calendarWidget EXCEPT !.displayMonth = @ + 1])
    /\ UNCHANGED <<feed, conversationContext, appReq, greetingTimer, response, renderedFrom,
                   typing, transport>>

\* The user clicks on the confirm button, which is visible.
ClickConfirm(c) ==
    /\ calendarWidget.confirmDisplay = "block"
    /\ IF calendarWidget.selectedArrivalDate # NullDate
             /\ calendarWidget.selectedDepartureDate # NullDate
       THEN /\ confirmButtonClick(c, calendarWidget.selectedArrivalDate,
                                  calendarWidget.selectedDepartureDate)
            /\ calendarWidget' = [calendarWidget EXCEPT !.confirmDisplay = "none"]
       ELSE UNCHANGED vars

PickerNext ==
    \/ \E day \in ClickDays : dateCellClick(day)
    \/ \E c \in 1..MaxPicks, day \in ClickDays : singleDateClick(c, day)
    \/ prevButtonClick
    \/ nextButtonClick
    \/ \E c \in 1..MaxPicks : ClickConfirm(c)
    \/ \E c \in 1..MaxPicks : sendToRasaWithoutUserMessage(c)

PickerSpec == PickerInit /\ [][PickerNext]_vars

\* --------------------------------------------------- claims on the page
\* C11: while a backend request of the page (for a typed message, a
\* single-date pick or a date-range confirmation) is in flight, a send of
\* the transport client is executing and holds an entry in pendingRequests.
C11_ThroughTransport ==
    \A c \in Cycles :
        appReq[c].pc = "fetch" =>
            /\ \E s \in Slots : req[s].pc # "idle"
            /\ DOMAIN pendingRequests # {}

\* ------------------------------------------------ claims on reconciling
\* The messages of the payload, the texts they carry, and the rendered turns
\* that carry a text of the payload.
Batch == MessagesOf(response)
TurnsWith(text) ==
    Cardinality({p \in 1..Len(RenderedTexts) : normalized(RenderedTexts[p]) = normalized(text)})
BatchTurns ==
    LET FromBatch(text) == \E i \in 1..Len(Batch) : trim(Batch[i].text) = text
    IN SelectSeq(RenderedTexts, FromBatch)
\* The texts that occur more than once in the batch, ignoring case.
Repeated ==
    LET texts == [i \in 1..Len(Batch) |-> normalized(Batch[i].text)]
    IN {texts[i] : i \in {i \in 1..Len(texts) :
                              texts[i] # <<>> /\ \E j \in 1..Len(texts) : j # i /\ texts[j] = texts[i]}}

\* The texts left by every rule but the two that remove repetitions.
OtherRules(messages, dom) ==
    FilterExistingGreeting(GreetingOnly(BeforeUnique(messages, dom)), existingGreeting(dom))
SurvivesIn(others, text) ==
    \E i \in 1..Len(others) : normalized(others[i]) = normalized(text)

FirstIsGreeting == Len(Batch) > 1 /\ IsGreetingText(Batch[1].text)

\* The first message is a plain text that no rule but the greeting rule
\* removes.
FirstSurvives ==
    LET left == BeforeUnique(Batch, History)
    IN /\ ~IsCalendar(Batch[1])
       /\ left # <<>>
       /\ left[1] = trim(Batch[1].text)
       /\ ~(existingGreeting(History) /\ IsWelcomeGreeting(Batch[1].text))

\* C13 as stated: a batch of several messages whose first message is a
\* greeting is rendered as exactly one turn.
C13_GreetingOneTurn ==
    Reconciled /\ FirstIsGreeting => Len(RenderedTexts) = 1

\* C13 amended: a batch of several messages whose first message is a
\* greeting that no other rule removes is rendered as exactly one turn, the
\* greeting.
C13_SurvivingGreetingOneTurn ==
    Reconciled /\ FirstIsGreeting /\ FirstSurvives => RenderedTexts = <<trim(Batch[1].text)>>

\* A help question followed by another text was reconciled into the help
\* question alone.
C13_Witness ==
    /\ Reconciled
    /\ FirstIsGreeting
    /\ FirstSurvives
    /\ Batch[2].text = Txt.Dates
    /\ RenderedTexts = <<Txt.Help>>

\* C14: when the tail of the feed or the batch holds the question whether
\* the user has enough information or wants to continue, no fallback text
\* of the batch is rendered.
C14_NoFallbackAfterInfoQuestion ==
    Reconciled /\ (hasInfoQuestionInDOM(History)
                     \/ \E i \in 1..Len(Batch) : IsInfoQuestion(Batch[i].text))
        => \A p \in 1..Len(BatchTurns) : ~isFallback(BatchTurns[p])

\* C15: no rendered turn holds the placeholder token.
C15_NoPlaceholder ==
    Reconciled => \A p \in 1..Len(RenderedTexts) :
                      ~includes(toLowerCase(RenderedTexts[p]), Pat.Placeholder)

\* A batch with a placeholder and another text was reconciled, and the other
\* text was rendered.
C15_Witness ==
    /\ Reconciled
    /\ \E i \in 1..Len(Batch) : Batch[i].text = Txt.Placeholder
    /\ Len(BatchTurns) > 0

WidgetPlace(j) ==
    LET before == Cardinality({k \in 1..j : IsCalendar(Batch[k])})
        places == {q \in 1..Len(Rendered) :
                      /\ Rendered[q].kind = "widget"
                      /\ Cardinality({r \in 1..q : Rendered[r].kind = "widget"}) = before}
    IN IF places = {} THEN 0 ELSE CHOOSE q \in places : TRUE
TurnPlace(i) ==
    LET places == {p \in 1..Len(Rendered) :
                      Rendered[p].kind = "text" /\ Rendered[p].text = trim(Batch[i].text)}
    IN IF places = {} THEN 0 ELSE CHOOSE p \in places : \A r \in places : p <= r

\* C17: a rendered text whose message precedes a widget message in the
\* payload stands before that widget in the feed.
C17_TextBeforeWidget ==
    Reconciled =>
        \A i, j \in 1..Len(Batch) :
            i < j /\ ~IsCalendar(Batch[i]) /\ IsCalendar(Batch[j]) /\ TurnPlace(i) > 0
                => TurnPlace(i) < WidgetPlace(j)

\* C18: reconciling a payload leaves the stored context overwritten, key by
\* key, by the context of the payload; a payload without a context leaves it
\* as it was.
C18_ContextMerged ==
    [][Reconcile =>
          IF response.shape = "object" /\ response.hasContext
          THEN /\ DOMAIN conversationContext' =
                      (DOMAIN conversationContext) \cup (DOMAIN response.context)
               /\ \A k \in DOMAIN response.context :
                      conversationContext'[k] = response.context[k]
               /\ \A k \in (DOMAIN conversationContext) \ (DOMAIN response.context) :
                      conversationContext'[k] = conversationContext[k]
          ELSE conversationContext' = conversationContext]_vars

\* A payload with a context was reconciled in a page with a stored context:
\* the number of guests is the payload's, the room type is the stored one.
C18_Witness ==
    /\ Reconciled
    /\ response.hasContext
    /\ conversationContext = [guests |-> 3, nights |-> 1, room_type |-> "double"]

\* The entries of the feed that the bot added: text turns and widgets.
BotEntries(dom) ==
    LET FromBot(e) == e.sender = "bot"
    IN SelectSeq(dom, FromBot)

\* A request cycle of the page ends: its response was handled or its
\* failure was caught.
CycleEnds(c) == (\E data \in AppPayloads : FetchResolved(c, data)) \/ FetchFailed(c)

\* C19: the end of a request cycle started by a typed message or a
\* single-date pick adds at least one bot entry to the feed, whatever the
\* backend answered; the cycle of a date-range confirmation is exempt.
C19_CycleEndsWithBotTurn ==
    [][\A c \in Cycles :
          CycleEnds(c) /\ appReq[c].path # "sendToRasaWithoutUserMessage"
              => Len(BotEntries(feed')) > Len(BotEntries(feed))]_vars

\* A payload from which the reconciler renders no text and no widget in the
\* feed dom.
NothingRenderable(data, dom) ==
    /\ CollectWidgets(MessagesOf(data)) = <<>>
    /\ Displayed(MessagesOf(data), dom) = <<>>

\* C20: when the response to a date-range confirmation carries no
\* renderable text and no widget, handling it adds no bot entry to the feed.
C20_NoTurnAfterConfirmation ==
    [][\A c \in Cycles, data \in AppPayloads :
          /\ FetchResolved(c, data)
          /\ appReq[c].path = "sendToRasaWithoutUserMessage"
          /\ NothingRenderable(data, feed)
          => BotEntries(feed') = BotEntries(feed)]_vars

\* ------------------------------------------- claims on the request bodies
\* bookingPhrases.some(phrase => messageLower.includes(phrase)) for the
\* message of a request body.
PhraseRecognized(message) ==
    \E phrase \in bookingPhrases : includes(trim(toLowerCase(message)), phrase)

\* The seven booking slots of a context are unset.
SlotsUnset(context) ==
    /\ "slots" \in DOMAIN context
    /\ \A k \in BookingSlots : k \in DOMAIN context.slots /\ context.slots[k] = "null"

C22_ArrayAsObject ==
    [][\A c \in Cycles, data \in AppPayloads :
          FetchResolved(c, data) /\ data.shape = "array"
              => feed' = Then(appReq[c].path, ObjectPayload(data.messages), feed,
                              conversationContext).feed]_vars

\* ------------------------------------------ claims on the calendar widget
\* The states of the picker, read from the variables of the widget.
ArrivalPicked(w) == w.selectedArrivalDate # NullDate /\ w.selectedDepartureDate = NullDate
BothSelected(w) == w.selectedArrivalDate # NullDate /\ w.selectedDepartureDate # NullDate
Confirmable(w) == BothSelected(w) /\ w.confirmDisplay = "block"
Confirmed(w) == BothSelected(w) /\ w.confirmDisplay = "none"

\* The requests of the widget; the requests the page has set up, and those
\* of date-range confirmations.
PickerCycles == 1..MaxPicks
Sent == {c \in Cycles : appReq[c].pc # "idle"}
Confirmations == {c \in Cycles : appReq[c].path = "sendToRasaWithoutUserMessage"}

\* "arrival date: <a>, departure date: <d>"
ExpectedMessage(a, d) ==
    <<"arrival", " ", "date", ":", " ">> \o toLocaleDateString(a)
        \o <<",", " ", "departure", " ", "date", ":", " ">> \o toLocaleDateString(d)

\* C23: a click on the confirm button of a booking calendar with arrival a
\* and departure d selected finds a < d, sets up exactly one request, whose
\* message is "arrival date: <a>, departure date: <d>", and leaves the
\* picker Confirmed; the timer then sends that message and no other.
C23_ConfirmSendsOneMessage ==
    [][\A c \in PickerCycles :
          /\ ClickConfirm(c) /\ BothSelected(calendarWidget) =>
                /\ calendarWidget.selectedArrivalDate < calendarWidget.selectedDepartureDate
                /\ c \notin Sent
                /\ Sent' = Sent \cup {c}
                /\ appReq'[c].message =
                       ExpectedMessage(calendarWidget.selectedArrivalDate,
                                       calendarWidget.selectedDepartureDate)
                /\ Confirmed(calendarWidget')
          /\ sendToRasaWithoutUserMessage(c) =>
                /\ appReq'[c].pc = "fetch"
                /\ appReq'[c].message = appReq[c].message
                /\ Sent' = Sent]_vars

\* The clicks 10, a rejected one, 15 and confirm: one message for 10 and 15
\* December 2026 is sent and the picker is Confirmed.
C23_Witness ==
    /\ calendarWidget.alerted
    /\ Confirmed(calendarWidget)
    /\ Sent = {1}
    /\ appReq[1].pc = "fetch"
    /\ appReq[1].message = ExpectedMessage(Date(2026, 11, 10), Date(2026, 11, 15))

\* C24: in ArrivalPicked a click on a date that is not after the arrival
\* date is rejected with an alert: the arrival date stays, no departure date
\* is set, the confirm container is not shown by it, and no turn is rendered
\* and no request set up.
C24_RejectedClick ==
    [][\A day \in ClickDays :
          /\ dateCellClick(day)
          /\ ArrivalPicked(calendarWidget)
          /\ CellDate(day) <= calendarWidget.selectedArrivalDate
          => /\ calendarWidget'.selectedArrivalDate = calendarWidget.selectedArrivalDate
             /\ ArrivalPicked(calendarWidget')
             /\ calendarWidget'.confirmDisplay = calendarWidget.confirmDisplay
             /\ calendarWidget'.alerted
             /\ feed' = feed
             /\ appReq' = appReq]_vars

\* A click was rejected, the arrival date is still selected and nothing was
\* sent.
C24_Witness ==
    /\ calendarWidget.alerted
    /\ ArrivalPicked(calendarWidget)
    /\ calendarWidget.confirmDisplay = "none"
    /\ Sent = {}

\* C25: once a widget has emitted its confirmation, no step changes its
\* selection or emits another confirmation.
C25_ConfirmedIsTerminal ==
    [][Confirmations # {} =>
          /\ calendarWidget'.selectedArrivalDate = calendarWidget.selectedArrivalDate
          /\ calendarWidget'.selectedDepartureDate = calendarWidget.selectedDepartureDate
          /\ Confirmations' = Confirmations]_vars

\* The floor of a widget: min_date, or today without one.
Floor(w) == IF w.calendarData.min_date # NullDate THEN w.calendarData.min_date ELSE w.today

\* The click handler of the cell of a day runs.
ClickAccepted(day) == dateCellClick(day) \/ \E c \in PickerCycles : singleDateClick(c, day)

\* A date on or before the arrival date of a departure calendar.
NotAfterArrival(w, date) ==
    /\ w.calendarData.mode = "departure"
    /\ w.calendarData.arrival_date # NullDate
    /\ date <= w.calendarData.arrival_date

\* C26: no click handler runs for a date on or before the floor of the
\* widget, or on or before the arrival date of a departure calendar.
C26_MinimumNeverClickable ==
    [][\A day \in ClickDays :
          ClickAccepted(day) =>
              /\ CellDate(day) > Floor(calendarWidget)
              /\ ~NotAfterArrival(calendarWidget, CellDate(day))]_vars

\* C26, as the code has it: no click handler runs for a date before the
\* floor of the widget, or on or before the arrival date of a departure
\* calendar.
C26_BeforeMinimumNeverClickable ==
    [][\A day \in ClickDays :
          ClickAccepted(day) =>
              /\ CellDate(day) >= Floor(calendarWidget)
              /\ ~NotAfterArrival(calendarWidget, CellDate(day))]_vars

\* The date of the floor of the backend was clicked and sent, while the 8th
\* of its month, which is before the floor, has no click handler.
C26_Witness ==
    /\ calendarWidget.calendarData.min_date # NullDate
    /\ appReq[1].pc = "fetch"
    /\ appReq[1].message = toLocaleDateString(calendarWidget.calendarData.min_date)
    /\ MonthsAway(calendarWidget) = 0
    /\ CellDate(8) \notin calendarWidget.clickable
    /\ CellDate(8) < Floor(calendarWidget)

\* C27: a click on the previous-month or the next-month button changes the
\* displayed month and year and the cells rendered for them, and nothing
\* else: the selected dates, the confirm container, the feed and the
\* requests stay.
C27_NavigationFrame ==
    [][prevButtonClick \/ nextButtonClick =>
          /\ [calendarWidget' EXCEPT !.displayMonth = calendarWidget.displayMonth,
                                     !.displayYear = calendarWidget.displayYear,
                                     !.clickable = calendarWidget.clickable] = calendarWidget
          /\ <<calendarWidget'.displayYear, calendarWidget'.displayMonth>>
                 # <<calendarWidget.displayYear, calendarWidget.displayMonth>>
          /\ feed' = feed
          /\ appReq' = appReq
          /\ conversationContext' = conversationContext]_vars

\* The user navigated into the next year with both dates selected.
C27_Witness ==
    /\ Confirmable(calendarWidget)
    /\ calendarWidget.displayYear = getFullYear(calendarWidget.today) + 1
    /\ getFullYear(calendarWidget.selectedDepartureDate) = getFullYear(calendarWidget.today)

\* C28: a single-date calendar never shows the confirm container and never
\* holds a selected date, and every click on one of its date cells renders
\* one user turn with the formatted date and issues exactly one request
\* with that message.
C28_SingleDateClickSends ==
    /\ [](calendarWidget.calendarData.mode # "booking" =>
             /\ calendarWidget.confirmDisplay = "none"
             /\ calendarWidget.selectedArrivalDate = NullDate
             /\ calendarWidget.selectedDepartureDate = NullDate)
    /\ [][\A c \in PickerCycles, day \in ClickDays :
             singleDateClick(c, day) =>
                 /\ feed' = Append(feed, Turn("user", toLocaleDateString(CellDate(day))))
                 /\ c \notin Sent
                 /\ Sent' = Sent \cup {c}
                 /\ appReq'[c].pc = "fetch"
                 /\ appReq'[c].path = "sendToRasa"
                 /\ appReq'[c].message = toLocaleDateString(CellDate(day))]_vars

\* The 10th of December 2026 was clicked in an arrival calendar.
C28_Witness ==
    /\ calendarWidget.calendarData.mode = "arrival"
    /\ appReq[1].pc = "fetch"
    /\ appReq[1].message = <<"10", " ", "December", " ", "2026">>
    /\ feed[Len(feed)] = Turn("user", <<"10", " ", "December", " ", "2026">>)

\* The user turns of a feed with a given text.
UserTurnsWith(dom, text) ==
    {i \in 1..Len(dom) : dom[i] = Turn("user", text)}

\* C29: the click on the confirm button renders the combined user turn and
\* then the confirmation of the page, and sets up the request without
\* issuing it; the request is issued later, by a step that renders nothing,
\* so that the feed holds one user turn with the combined message for each
\* confirmation.
C29_ConfirmationOrder ==
    [][\A c \in PickerCycles :
          /\ ClickConfirm(c) /\ BothSelected(calendarWidget) =>
                /\ appReq[c].pc = "idle"
                /\ appReq'[c].pc = "timer"
                /\ Len(feed') = Len(feed) + 2
                /\ SubSeq(feed', 1, Len(feed)) = feed
                /\ feed'[Len(feed) + 1] = Turn("user", appReq'[c].message)
                /\ feed'[Len(feed) + 2].sender = "bot"
                /\ feed'[Len(feed) + 2].kind = "text"
          /\ sendToRasaWithoutUserMessage(c) =>
                /\ appReq[c].pc = "timer"
                /\ appReq'[c].pc = "fetch"
                /\ feed' = feed
                /\ Cardinality(UserTurnsWith(feed', appReq'[c].message))
                       = Cardinality({d \in Confirmations' :
                                         appReq'[d].message = appReq'[c].message})]_vars

\* The request of a confirmation is in flight and the feed ends with the
\* combined user turn and the confirmation of the page.
C29_Witness ==
    /\ appReq[1].pc = "fetch"
    /\ appReq[1].path = "sendToRasaWithoutUserMessage"
    /\ Len(feed) >= 2
    /\ feed[Len(feed) - 1] = Turn("user", appReq[1].message)
    /\ feed[Len(feed)].sender = "bot"

\* C30: a widget that holds a departure date holds an arrival date before
\* it, and a confirmation is set up only in a state with both dates
\* selected.
C30_DepartureAfterArrival ==
    /\ [](calendarWidget.selectedDepartureDate # NullDate =>
             /\ calendarWidget.selectedArrivalDate # NullDate
             /\ calendarWidget.selectedArrivalDate < calendarWidget.selectedDepartureDate)
    /\ [][\A c \in Cycles :
             c \notin Confirmations /\ c \in Confirmations' => BothSelected(calendarWidget)]_vars

\* A confirmation waits for its timer with the departure date in the month
\* after the arrival date.
C30_Witness ==
    /\ appReq[1].pc = "timer"
    /\ BothSelected(calendarWidget)
    /\ getMonth(calendarWidget.selectedDepartureDate)
           # getMonth(calendarWidget.selectedArrivalDate)

\* ------------------------------------- claims on the synthesized fallback
\* The turn that the end of handleRasaResponse synthesizes in the feed dom.
SynthesizedTurn(dom) ==
    Turn("bot", IF isGreeting(dom) THEN Txt.HelloFallback ELSE Txt.Processing)

\* C31: when no text and no widget of the payload survives the filters and
\* the last user turn is no date-range confirmation, the call renders
\* exactly one bot turn: the friendly greeting if the last user text holds a
\* greeting word, the processing text otherwise.
C31_FallbackSynthesized ==
    /\ Reconciled
    /\ NothingRenderable(response, History)
    /\ ~isDateConfirmation(History)
    => Rendered = <<SynthesizedTurn(History)>>

\* The calendar messages of the payload that carry no text, the widgets the
\* call rendered, and the texts the page itself synthesizes.
WidgetOnly == {i \in 1..Len(Batch) : IsCalendar(Batch[i]) /\ trim(Batch[i].text) = <<>>}
RenderedWidgets ==
    LET IsWidget(e) == e.kind = "widget"
    IN SelectSeq(Rendered, IsWidget)
SynthesizedTexts == {Txt.HelloFallback, Txt.Processing}

\* C32: a batch with a calendar message without a text is rendered with one
\* widget for each calendar message, without a blank text turn, and without
\* a synthesized greeting or processing turn.
C32_WidgetWithoutText ==
    Reconciled /\ WidgetOnly # {}
        => /\ Len(RenderedWidgets) = Len(CollectWidgets(Batch))
           /\ \A p \in 1..Len(RenderedTexts) :
                  /\ trim(RenderedTexts[p]) # <<>>
                  /\ RenderedTexts[p] \notin SynthesizedTexts

\* The messages of the payload that carry the backend's question whether
\* the user has enough information or wants to continue with the booking.
Prompts ==
    {i \in 1..Len(Batch) : ~IsCalendar(Batch[i]) /\ IsInfoQuestion(trim(Batch[i].text))}

\* C33: every enough-information / shall-we-continue prompt of a batch is
\* rendered as a bot turn.
C33_PromptRendered ==
    Reconciled => \A i \in Prompts : TurnsWith(Batch[i].text) >= 1

\* ------------------------------------------- claims on the request identity
\* C34: a send that the fail-fast rule lets through, and that differs in
\* message text or in context from every send still in flight, issues a
\* backend call of its own and waits on no other send's promise.
C34_DistinctSendsNotMerged ==
    [][\A s \in Slots, m \in Messages :
          /\ sendMessage(s, m, ContextOf(s))
          /\ ~FailFast(isConnected, now, lastCheckTime)
          /\ \A t \in Slots :
                 InFlight(req[t]) => req[t].message # m \/ req[t].context # ContextOf(s)
          => req'[s].pc = "fetch" /\ req'[s].calls = 1]_vars

\* ------------------------------------------- claims on overlapping requests
\* C35: once a typed booking-start message has reset the booking slots, the
\* response to a request that a typed message or a single-date pick issued
\* before that message leaves the booking slots unset.
C35_StaleResponseKeepsReset ==
    [][\A c \in Cycles, data \in AppPayloads :
          /\ FetchResolved(c, data)
          /\ appReq[c].path # "sendToRasaWithoutUserMessage"
          /\ \E d \in Cycles :
                 d > c /\ appReq[d].path = "sendMessage" /\ PhraseRecognized(appReq[d].message)
          /\ SlotsUnset(conversationContext)
          => SlotsUnset(conversationContext')]_vars

\* The feed holds no user turn while the request of a typed message or of a
\* single-date pick is in flight: the chat was cleared after the request was
\* issued, and the user has sent nothing since.
ClearedSince(c) ==
    /\ appReq[c].pc = "fetch"
    /\ appReq[c].path # "sendToRasaWithoutUserMessage"
    /\ UserMessageTexts(feed) = <<>>

\* C36: after the chat was cleared and before the user sends again, the end
\* of a request issued before the clear adds no bot entry to the feed and
\* leaves the conversation context as it is.
C36_NothingAfterClear ==
    [][\A c \in Cycles :
          CycleEnds(c) /\ ClearedSince(c)
              => /\ BotEntries(feed') = BotEntries(feed)
                 /\ conversationContext' = conversationContext]_vars

\* A response without anything to render: a decoded object that holds no
\* message the reconciler displays, no widget, no action and no
\* fallback_response.
EmptyResponse(data, dom) ==
    /\ Truthy(data)
    /\ ~Throws(data)
    /\ data.fallbackResponse = "absent"
    /\ Len(data.actions) = 0
    /\ NothingRenderable(data, dom)

\* C37: an empty response to a typed message or to a single-date pick is
\* answered with one synthesized turn, the greeting or the processing text,
\* whatever the feed holds by then.
C37_ExemptionOnlyForConfirmation ==
    [][\A c \in Cycles, data \in AppPayloads :
          /\ FetchResolved(c, data)
          /\ appReq[c].path # "sendToRasaWithoutUserMessage"
          /\ EmptyResponse(data, feed)
          => \E text \in SynthesizedTexts : feed' = addMessageToChat(feed, "bot", text)]_vars

\* C38: while a request of the page waits for its response, the typing
\* indicator is in the chat container.
C38_TypingWhileInFlight ==
    \A c \in Cycles : appReq[c].pc = "fetch" => typingMessage

\* ------------------------------------------------- recovery of the client
\* The runs in which the backend becomes reachable and stays reachable: the
\* failures of sends are the MaxFaults faults of the run, and a probe fails
\* only while faults are left.  Once the faults are used up every fetch and
\* every probe is answered with a 2xx response and a JSON body.
BackendReachable == faults = MaxFaults

RecoverNext ==
    \/ \E s \in Slots : \E m \in SendInputs(s) : sendMessage(s, m, ContextOf(s))
    \/ \E s \in Slots : FetchOk(s)
    \/ \E s \in Slots : FetchNotOk(s)
    \/ \E s \in Slots, e \in NetworkErrors : FetchReject(s, e)
    \/ \E s \in Slots : AbortTimeout(s)
    \/ \E s \in Slots : JsonResolve(s)
    \/ \E s \in Slots : JsonReject(s)
    \/ \E s \in Slots : RetryDelayElapsed(s)
    \/ IntervalFire
    \/ ProbeOk
    \/ ~BackendReachable /\ ProbeNotOk
    \/ ~BackendReachable /\ ProbeReject
    \/ ProbeJsonResolve
    \/ ~BackendReachable /\ ProbeJsonReject
    \/ Destroy
    \/ Unload
    \/ \E d \in TickSteps : Tick(d)

\* The timers of the event loop fire and a reachable backend answers.
RecoverSpec ==
    /\ Init
    /\ [][RecoverNext]_vars
    /\ \A s \in Slots : WF_vars(FetchSettles(s))
    /\ \A s \in Slots : WF_vars(RetryDelayElapsed(s))
    /\ WF_vars(ProbeSettles)

\* C39: a send made while the client is marked unavailable and the grace
\* window has passed, or after a probe marked it available again, issues a
\* backend call (or waits on the call of the same request, issued in the same
\* millisecond); and once the backend stays reachable, a call or a probe in
\* flight leads to isConnected being true.
C39_Recovers ==
    /\ [][\A s \in Slots, m \in Messages :
             /\ sendMessage(s, m, ContextOf(s))
             /\ isConnected \/ now - lastCheckTime >= GraceWindow
             => \/ req'[s].pc = "fetch" /\ req'[s].calls = 1
                \/ req'[s].pc = "joined" /\ Executing(req[req'[s].joinOf])]_vars
    /\ \A s \in Slots : (BackendReachable /\ req[s].pc = "fetch") ~> isConnected
    /\ (BackendReachable /\ probeFetch > 0) ~> isConnected

\* The backend is reachable again, the client is still marked unavailable,
\* and a send made after the grace window is waiting for fetch.
C39_Witness ==
    /\ BackendReachable
    /\ ~isConnected
    /\ now - lastCheckTime >= GraceWindow
    /\ \E s \in Slots : req[s].pc = "fetch" /\ req[s].retries = 0

====
